---- MODULE Spec2Model ----
(***************************************************************************)
(* Model of the matching and result-reduction routines of pyxem:           *)
(*   src/pyxem/utils/indexation_utils.py                                   *)
(*     crystal_from_template_matching, crystal_from_vector_matching,       *)
(*     get_nth_best_solution, match_vectors, correlate_library,            *)
(*     fast_correlation, zero_mean_normalized_correlation,                 *)
(*     _pearson_correlation, get_n_best_matches,                           *)
(*     correlate_library_to_pattern_partial,                               *)
(*     index_dataset_with_template_rotation                                *)
(*   src/pyxem/utils/vectors.py                                            *)
(*     get_angle_cartesian, get_angle_cartesian_vec,                       *)
(*     filter_vectors_near_basis, filter_vectors_ragged                    *)
(* and of the shape checks of the array tools (pyxem/utils/dask_tools.py), *)
(* which are modelled from the specification and their tests.              *)
(*                                                                         *)
(* Every routine is a pure function of its arguments.  A behaviour is one  *)
(* call: Init draws the arguments from bounded sets, the action applies    *)
(* the routine and stores what it returns or the exception it raises.      *)
(*                                                                         *)
(* Numbers.  Scores and errors are floats in the code; the model keeps     *)
(* them as exact fractions [n |-> numerator, d |-> denominator] in lowest  *)
(* terms with d > 0, so that equality of fractions is equality of values.  *)
(* A division by zero is a ZeroDivisionError for Python scalars and        *)
(* nan/inf for numpy scalars; which of the two an array holds is part of   *)
(* the input (args.scalar).                                                *)
(***************************************************************************)
EXTENDS Integers, Sequences, FiniteSets, TLC

VARIABLES call, args, result

vars == <<call, args, result>>

(* ------------------------------ bounds -------------------------------- *)
\* largest number of rows of a ranked result set handed to a reducer
MaxRows == 3
\* largest phase index of a reducer input (MaxPhase + 1 phases)
MaxPhase == 1
\* largest template-matching score (scores are 0 .. MaxScore)
MaxScore == 2
\* resolution of total_error in the reducer input: k / ErrDen, k in 0 .. ErrDen
ErrDen == 2

(* --------------------------- number helpers --------------------------- *)
Abs(x) == IF x < 0 THEN -x ELSE x

RECURSIVE Gcd(_, _)
Gcd(a, b) == IF b = 0 THEN a ELSE Gcd(b, a % b)

\* the fraction n/d (d # 0) in lowest terms with a positive denominator
Frac(n, d) ==
    LET g == Gcd(Abs(n), Abs(d))
        s == IF d < 0 THEN -1 ELSE 1
    IN  [k |-> "num", n |-> (s * n) \div g, d |-> (s * d) \div g]

FInt(i) == Frac(i, 1)
FSub(a, b) == Frac(a.n * b.d - b.n * a.d, a.d * b.d)
FMul(a, b) == Frac(a.n * b.n, a.d * b.d)
FLess(a, b) == a.n * b.d < b.n * a.d
FLeq(a, b) == a.n * b.d <= b.n * a.d
FZero == FInt(0)
FOne == FInt(1)
NaN == [k |-> "nan"]
PosInf == [k |-> "inf"]
NegInf == [k |-> "-inf"]
IsNum(x) == x.k = "num"

\* a / b for b # 0
FDiv(a, b) == Frac(a.n * b.d, a.d * b.n)

\* numpy's a / 0: nan for 0/0, otherwise an infinity of a's sign
NpDivZero(a) == IF a.n = 0 THEN NaN ELSE IF a.n > 0 THEN PosInf ELSE NegInf

\* 100 * (1 - q) where q is a fraction or numpy's nan/inf
Hundred == 100
ReliabilityOf(q) ==
    IF IsNum(q) THEN FMul(FInt(Hundred), FSub(FOne, q))
    ELSE IF q.k = "nan" THEN NaN
    ELSE IF q.k = "inf" THEN NegInf ELSE PosInf

Raise(e) == [status |-> e]
Pending == [status |-> "pending"]
Returned == result.status = "ok"
Raised == result.status \notin {"pending", "ok"}

(* --------------------------- list helpers ----------------------------- *)
Range(s) == {s[i] : i \in DOMAIN s}

\* Python's sorted(s, key=...): ascending by Less and stable, i.e. elements
\* that compare equal keep their input order (also under reverse=True, where
\* Less is "greater than")
StableSort(s, Less(_, _)) ==
    LET n == Len(s)
        rank(i) == 1 + Cardinality({j \in 1 .. n :
                        \/ Less(s[j], s[i])
                        \/ (~Less(s[i], s[j]) /\ j < i)})
    IN  [p \in 1 .. n |-> s[CHOOSE i \in 1 .. n : rank(i) = p]]

Reverse(s) == [i \in 1 .. Len(s) |-> s[Len(s) + 1 - i]]

(* ------------------- crystal_from_template_matching ------------------- *)
\* a row of template-matching results: [phase, [z, x, z], correlation];
\* the orientation triplet is kept as a label
TemplateRow(p, o, c) == [phase |-> p, orientation |-> o, score |-> c]

\* a / b as the scalars of a z_matches array divide (b = 0 only where the
\* caller has excluded the raising case)
Quot(a, b) == IF b.n = 0 THEN NpDivZero(a) ELSE FDiv(a, b)

\* Python scalars raise ZeroDivisionError on a zero divisor, numpy's do not
DivRaises(b, scalar) == scalar = "py" /\ b.n = 0

\* np.argmax: the first index holding the maximum
ArgMax(scores) ==
    CHOOSE i \in DOMAIN scores :
        /\ \A j \in DOMAIN scores : scores[j] <= scores[i]
        /\ \A j \in DOMAIN scores : j < i => scores[j] < scores[i]

SeqMax(scores) == scores[ArgMax(scores)]

\* np.partition(a, -2)[-2]: the element at position len-2 of the sorted array
SecondLargest(scores) ==
    StableSort(scores, LAMBDA x, y : x < y)[Len(scores) - 1]

ScoresOf(rows) == [i \in DOMAIN rows |-> rows[i].score]

\* mutant: the ratio of the single-phase reliability inverted
SinglePhaseBranch_Inverted(z_matches, scalar) ==
    LET best == z_matches[1].score
    IN  IF best > 0
        THEN IF Len(z_matches) < 2
             THEN Raise("IndexError")
             ELSE [status |-> "ok",
                   phase |-> z_matches[1].phase,
                   orientation |-> z_matches[1].orientation,
                   metrics |-> [correlation |-> best,
                                orientation_reliability |->
                                    ReliabilityOf(Quot(FInt(best),
                                                       FInt(z_matches[2].score)))]]
        ELSE [status |-> "ok",
              phase |-> z_matches[1].phase,
              orientation |-> z_matches[1].orientation,
              metrics |-> [correlation |-> best,
                           orientation_reliability |-> FInt(Hundred)]]

SinglePhaseBranch(z_matches, scalar) ==
    LET best == z_matches[1].score
    IN  IF best > 0
        THEN IF Len(z_matches) < 2
             THEN Raise("IndexError")
             ELSE [status |-> "ok",
                   phase |-> z_matches[1].phase,
                   orientation |-> z_matches[1].orientation,
                   metrics |-> [correlation |-> best,
                                orientation_reliability |->
                                    ReliabilityOf(Quot(FInt(z_matches[2].score),
                                                       FInt(best)))]]
        ELSE [status |-> "ok",
              phase |-> z_matches[1].phase,
              orientation |-> z_matches[1].orientation,
              metrics |-> [correlation |-> best,
                           orientation_reliability |-> FInt(Hundred)]]

\* mutant: the quotient of the phase reliability is inverted
MultiPhaseBranch_Inverted(z_matches, scalar) ==
    LET index_best_match == ArgMax(ScoresOf(z_matches))
        best == z_matches[index_best_match]
        same == SelectSeq(z_matches, LAMBDA r : r.phase = best.phase)
        other == SelectSeq(z_matches, LAMBDA r : r.phase # best.phase)
    IN  IF Len(same) < 2
        THEN Raise("ValueError")
        ELSE LET second_orientation == SecondLargest(ScoresOf(same))
                 second_phase == SeqMax(ScoresOf(other))
             IN  IF DivRaises(FInt(best.score), scalar)
                 THEN Raise("ZeroDivisionError")
                 ELSE [status |-> "ok",
                       phase |-> best.phase,
                       orientation |-> best.orientation,
                       metrics |-> [correlation |-> best.score,
                                    orientation_reliability |->
                                        ReliabilityOf(Quot(FInt(second_orientation),
                                                           FInt(best.score))),
                                    phase_reliability |->
                                        ReliabilityOf(Quot(FInt(best.score),
                                                           FInt(second_phase)))]]

MultiPhaseBranch(z_matches, scalar) ==
    LET index_best_match == ArgMax(ScoresOf(z_matches))
        best == z_matches[index_best_match]
        same == SelectSeq(z_matches, LAMBDA r : r.phase = best.phase)
        other == SelectSeq(z_matches, LAMBDA r : r.phase # best.phase)
    IN  IF Len(same) < 2
        THEN Raise("ValueError")
        ELSE LET second_orientation == SecondLargest(ScoresOf(same))
                 second_phase == SeqMax(ScoresOf(other))
             IN  IF DivRaises(FInt(best.score), scalar)
                 THEN Raise("ZeroDivisionError")
                 ELSE [status |-> "ok",
                       phase |-> best.phase,
                       orientation |-> best.orientation,
                       metrics |-> [correlation |-> best.score,
                                    orientation_reliability |->
                                        ReliabilityOf(Quot(FInt(second_orientation),
                                                           FInt(best.score))),
                                    phase_reliability |->
                                        ReliabilityOf(Quot(FInt(second_phase),
                                                           FInt(best.score)))]]

crystal_from_template_matching(z_matches, scalar) ==
    IF Cardinality({z_matches[i].phase : i \in DOMAIN z_matches}) = 1
    THEN SinglePhaseBranch(z_matches, scalar)
    ELSE MultiPhaseBranch(z_matches, scalar)

\* the documented input: rows sorted by correlation, descending, within
\* each phase
SortedWithinPhase(z) ==
    \A i, j \in DOMAIN z :
        (i < j /\ z[i].phase = z[j].phase) => z[i].score >= z[j].score

Phases == 0 .. MaxPhase
Scores == 0 .. MaxScore
Scalars == {"py", "np"}

TemplateInputs ==
    {z \in UNION {[1 .. n -> [phase : Phases, score : Scores]] : n \in 1 .. MaxRows} :
        SortedWithinPhase(z)}

\* row i carries the orientation label i
WithOrientation(z) == [i \in DOMAIN z |-> TemplateRow(z[i].phase, i, z[i].score)]

InitTemplate ==
    /\ call = "crystal_from_template_matching"
    /\ args \in {[z_matches |-> WithOrientation(z), scalar |-> k] :
                    z \in TemplateInputs, k \in Scalars}
    /\ result = Pending

CallTemplate ==
    /\ call = "crystal_from_template_matching"
    /\ result = Pending
    /\ result' = crystal_from_template_matching(args.z_matches, args.scalar)
    /\ UNCHANGED <<call, args>>

(* -------------------- crystal_from_vector_matching -------------------- *)
\* OrientationResult(phase_index, rotation_matrix, match_rate, error_hkls,
\* total_error, scale, center_x, center_y); the rotation matrix and the
\* per-peak errors are kept as labels
OrientationResult(p, R, m, ehkls, e) ==
    [phase_index |-> p, rotation_matrix |-> R, match_rate |-> m,
     error_hkls |-> ehkls, total_error |-> e]

SortedByTotalError(matches) ==
    StableSort(matches, LAMBDA x, y : FLess(x.total_error, y.total_error))

\* mode == "vector", key == "total_error", descending == False, applied to
\* an array of OrientationResult: single_match_result[0] has no tolist(), so
\* the except branch sorts the array itself; [rank] raises IndexError when
\* the array has no such element
get_nth_best_solution(single_match_result, rank) ==
    LET ranked == SortedByTotalError(single_match_result)
    IN  IF rank + 1 > Len(ranked)
        THEN Raise("IndexError")
        ELSE [status |-> "ok", best_fit |-> ranked[rank + 1]]

\* np.rad2deg(mat2euler(R, "rzxz")) of the best match's rotation matrix
EulerOf(R) == [euler_of |-> R]

\* second_match.total_error or 1.0
OrOne(e) == IF e = FZero THEN FOne ELSE e

VectorMetrics(best_match, second_match, extra) ==
    [status |-> "ok",
     phase |-> best_match.phase_index,
     orientation |-> EulerOf(best_match.rotation_matrix),
     metrics |-> extra @@
         [match_rate |-> best_match.match_rate,
          ehkls |-> best_match.error_hkls,
          total_error |-> best_match.total_error,
          orientation_reliability |->
              ReliabilityOf(FDiv(best_match.total_error,
                                 OrOne(second_match.total_error)))]]

\* wrapped: z_matches is the shape-(1,) object array holding the array of
\* matches (what a VectorMatchingResults signal stores per position);
\* otherwise z_matches is the array of matches itself.  An unwrapped array
\* of one match also has shape (1,) and is replaced by its only element,
\* an OrientationResult, on which neither [0].tolist() nor .tolist() exists.
crystal_from_vector_matching(z_matches, wrapped, scalar) ==
    IF ~wrapped /\ Len(z_matches) = 1
    THEN Raise("AttributeError")
    ELSE
    LET best_match == get_nth_best_solution(z_matches, 0).best_fit
        other_phase_matches ==
            SelectSeq(z_matches, LAMBDA m : m.phase_index # best_match.phase_index)
    IN  IF other_phase_matches # << >>
        THEN LET second_best_phase == SortedByTotalError(other_phase_matches)[1]
                 same_phase_matches ==
                     SelectSeq(z_matches,
                               LAMBDA m : m.phase_index = best_match.phase_index)
             IN  IF DivRaises(second_best_phase.total_error, scalar)
                 THEN Raise("ZeroDivisionError")
                 ELSE IF Len(same_phase_matches) < 2
                 THEN Raise("IndexError")
                 ELSE VectorMetrics(
                          best_match,
                          SortedByTotalError(same_phase_matches)[2],
                          [phase_reliability |->
                              ReliabilityOf(Quot(best_match.total_error,
                                                 second_best_phase.total_error))])
        ELSE LET second == get_nth_best_solution(z_matches, 1)
             IN  IF second.status # "ok"
                 THEN Raise(second.status)
                 ELSE VectorMetrics(best_match, second.best_fit, << >>)

\* total_error of a solution is a mean of rounding errors, at most 1/2; the
\* padding entry of match_vectors has total_error 1.0 and match_rate 0
TotalErrors == {Frac(k, ErrDen) : k \in {j \in 0 .. ErrDen : 2 * j <= ErrDen}} \cup {FOne}

VectorInputs ==
    UNION {[1 .. n -> [phase_index : Phases, total_error : TotalErrors]] :
              n \in 1 .. MaxRows}

\* row i carries the rotation-matrix label i
WithRotation(z) ==
    [i \in DOMAIN z |->
        OrientationResult(z[i].phase_index, i,
                          IF z[i].total_error = FOne THEN FZero ELSE FOne,
                          i, z[i].total_error)]

InitVector ==
    /\ call = "crystal_from_vector_matching"
    /\ args \in {[z_matches |-> WithRotation(z), wrapped |-> w, scalar |-> k] :
                    z \in VectorInputs, w \in BOOLEAN, k \in Scalars}
    /\ result = Pending

CallVector ==
    /\ call = "crystal_from_vector_matching"
    /\ result = Pending
    /\ result' = crystal_from_vector_matching(args.z_matches, args.wrapped,
                                              args.scalar)
    /\ UNCHANGED <<call, args>>

(* result reduction: either reducer applied to one ranked result set *)
InitReduce == InitTemplate \/ InitVector

NextReduce == CallTemplate \/ CallVector

SpecReduce == InitReduce /\ [][NextReduce]_vars

(* ================= properties of result reduction ===================== *)
TemplateDone == call = "crystal_from_template_matching" /\ result.status # "pending"
VectorDone == call = "crystal_from_vector_matching" /\ result.status # "pending"

PhasesIn(z) == {z[i].phase : i \in DOMAIN z}
MaxScoreIn(z) == CHOOSE m \in {z[i].score : i \in DOMAIN z} :
                    \A i \in DOMAIN z : z[i].score <= m

\* r = 100 * (1 - a / b), stated without dividing: r * b = 100 * (b - a)
IsReliability(r, a, b) == IsNum(r) /\ r.n * b = 100 * (b - a) * r.d

\* C1: single-phase branch.  For z_matches with at least two rows and one
\* distinct phase the result is [z[0,0], z[0,1], metrics], correlation is
\* z[0,2], orientation_reliability is 100*(1 - z[1,2]/z[0,2]) when
\* z[0,2] > 0 and 100 otherwise (0 for equal positive scores), and metrics
\* has no phase_reliability key.
C1_SinglePhase ==
    LET z == args.z_matches
    IN  (TemplateDone /\ Len(z) >= 2 /\ Cardinality(PhasesIn(z)) = 1) =>
            /\ Returned
            /\ result.phase = z[1].phase
            /\ result.orientation = z[1].orientation
            /\ result.metrics.correlation = z[1].score
            /\ "phase_reliability" \notin DOMAIN result.metrics
            /\ LET r == result.metrics.orientation_reliability
               IN  /\ z[1].score > 0 => IsReliability(r, z[2].score, z[1].score)
                   /\ z[1].score <= 0 => r = FInt(100)
                   /\ (z[1].score > 0 /\ z[2].score = z[1].score) => r = FZero

\* C1 witness: a single-phase result set with tied positive scores has been
\* reduced to orientation_reliability 0
C1_Witness ==
    /\ TemplateDone /\ Returned
    /\ Len(args.z_matches) = 3
    /\ \A i \in 1 .. 3 : args.z_matches[i].phase = 0 /\ args.z_matches[i].score = 2
    /\ result.metrics.orientation_reliability = FZero

\* the row the multi-phase branch must report: one of globally maximal score
IsBestRow(z, i) == z[i].score = MaxScoreIn(z)

\* maximum score over the rows of a phase other than p
OtherPhaseMax(z, p) ==
    LET S == {z[i].score : i \in {j \in DOMAIN z : z[j].phase # p}}
    IN  CHOOSE m \in S : \A x \in S : x <= m

\* C2: multi-phase branch.  For every z_matches with two or more distinct
\* phases the reported phase and orientation are those of the row of
\* globally maximal score, correlation is that score and phase_reliability
\* is 100*(1 - s_other/s_best), s_other the maximum score of the other
\* phases.
C2_MultiPhase ==
    LET z == args.z_matches
    IN  (TemplateDone /\ Cardinality(PhasesIn(z)) >= 2) =>
            /\ Returned
            /\ \E i \in DOMAIN z :
                   /\ IsBestRow(z, i)
                   /\ result.phase = z[i].phase
                   /\ result.orientation = z[i].orientation
            /\ result.metrics.correlation = MaxScoreIn(z)
            /\ IsReliability(result.metrics.phase_reliability,
                             OtherPhaseMax(z, result.phase), MaxScoreIn(z))

\* scores of the rows of phase p with one row of the best score removed
RunnerUpScore(z, p) ==
    LET idx == {i \in DOMAIN z : z[i].phase = p}
        b == CHOOSE i \in idx : \A j \in idx : z[j].score <= z[i].score
        S == {z[i].score : i \in idx \ {b}}
    IN  CHOOSE m \in S : \A x \in S : x <= m

RowsOfPhase(z, p) == Cardinality({i \in DOMAIN z : z[i].phase = p})

BestPhase(z) == z[ArgMax(ScoresOf(z))].phase

\* C3: multi-phase branch.  orientation_reliability is
\* 100*(1 - s_second/s_best), s_second the second-highest score among the
\* rows of the best row's phase, whenever that phase has at least two rows.
C3_MultiPhaseOrientation ==
    LET z == args.z_matches
    IN  (/\ TemplateDone
         /\ Cardinality(PhasesIn(z)) >= 2
         /\ RowsOfPhase(z, BestPhase(z)) >= 2) =>
            /\ Returned
            /\ IsReliability(result.metrics.orientation_reliability,
                             RunnerUpScore(z, result.phase), MaxScoreIn(z))

\* the phase of the best match of a vector-matching result set
MinErrorIn(z) == CHOOSE e \in {z[i].total_error : i \in DOMAIN z} :
                    \A i \in DOMAIN z : FLeq(e, z[i].total_error)
BestVectorRow(z) == CHOOSE i \in DOMAIN z :
                        /\ z[i].total_error = MinErrorIn(z)
                        /\ \A j \in DOMAIN z : j < i => z[j].total_error # MinErrorIn(z)
RowsOfPhaseIndex(z, p) == Cardinality({i \in DOMAIN z : z[i].phase_index = p})

\* C4: result reduction never fails for lack of a runner-up.  When the best
\* phase has a single row, both reducers return a complete entry computed
\* with a sentinel runner-up (score 0, error 1.0).
C4_NoRunnerUp ==
    LET z == args.z_matches
    IN  /\ (TemplateDone /\ RowsOfPhase(z, BestPhase(z)) = 1) =>
               /\ Returned
               /\ MaxScoreIn(z) > 0 =>
                      IsReliability(result.metrics.orientation_reliability,
                                    0, MaxScoreIn(z))
        /\ (VectorDone /\ RowsOfPhaseIndex(z, z[BestVectorRow(z)].phase_index) = 1) =>
               /\ Returned
               /\ result.metrics.orientation_reliability =
                      ReliabilityOf(MinErrorIn(z))

\* r = 100 * (1 - b / u) for fractions b, u, stated without dividing
IsErrorReliability(r, b, u) ==
    IsNum(r) /\ FMul(r, u) = FMul(FInt(100), FSub(u, b))

\* smallest total_error among the rows selected by Sel, leaving out row skip
MinErrorOf(z, Sel(_), skip) ==
    LET S == {z[i].total_error : i \in {j \in DOMAIN z : Sel(z[j]) /\ j # skip}}
    IN  CHOOSE e \in S : \A x \in S : FLeq(e, x)

\* C5: crystal_from_vector_matching reports the match of smallest
\* total_error; orientation_reliability is 100*(1 - best/runner_up) with
\* runner_up the second-smallest total_error of the best match's phase, 1.0
\* when there is no runner-up; phase_reliability = 100*(1 - best/e_other),
\* e_other the smallest total_error of any other phase, is present exactly
\* when some row has another phase_index.
C5_VectorReduction ==
    LET z == args.z_matches
        b == BestVectorRow(z)
        p == z[b].phase_index
        hasOther == \E i \in DOMAIN z : z[i].phase_index # p
        runner_up == IF RowsOfPhaseIndex(z, p) >= 2
                     THEN MinErrorOf(z, LAMBDA m : m.phase_index = p, b)
                     ELSE FOne
    IN  VectorDone =>
            /\ Returned
            /\ result.phase = p
            /\ \E i \in DOMAIN z :
                   /\ z[i].total_error = MinErrorIn(z)
                   /\ result.orientation = EulerOf(z[i].rotation_matrix)
            /\ IsErrorReliability(result.metrics.orientation_reliability,
                                  MinErrorIn(z), runner_up)
            /\ ("phase_reliability" \in DOMAIN result.metrics) <=> hasOther
            /\ hasOther =>
                   IsErrorReliability(result.metrics.phase_reliability,
                                      MinErrorIn(z),
                                      MinErrorOf(z, LAMBDA m : m.phase_index # p, 0))

ReliabilityKeys == {"orientation_reliability", "phase_reliability"}

\* C6: degenerate scores never raise.  When the best score is 0,
\* crystal_from_template_matching returns reliability 100 in both branches,
\* and crystal_from_vector_matching never divides by a zero total_error.
C6_DegenerateScores ==
    /\ (TemplateDone /\ MaxScoreIn(args.z_matches) = 0) =>
           /\ Returned
           /\ \A k \in DOMAIN result.metrics \cap ReliabilityKeys :
                  result.metrics[k] = FInt(100)
    /\ VectorDone =>
           /\ result.status # "ZeroDivisionError"
           /\ Returned =>
                  \A k \in DOMAIN result.metrics \cap ReliabilityKeys :
                      IsNum(result.metrics[k])

(* ============================ match_vectors =========================== *)
(* Peaks lie in the detector plane and are kept in polar form:             *)
(* [len |-> magnitude, az |-> polar angle in quarter turns].  A library    *)
(* phase is its measurement table, rows [m1, m2, angle] (the two           *)
(* magnitudes and the included angle of an hkl pair).  One step of the     *)
(* model is one iteration of the loop over the phases.                     *)
(*                                                                         *)
(* lattice_recip.cartesian / fractional and the rotation recovery are      *)
(* outside this file: what they return for a candidate, the fractional hkl *)
(* of every peak, is chosen by the step among three outcomes: no peak is   *)
(* indexed exactly, only the two peaks of the pair are, or all peaks are.  *)
(***************************************************************************)
\* largest number of peaks of one pattern
MaxPeaks == 3
\* largest n_best
MaxBest == 2

\* top_matches = np.empty(..., dtype="object"): every element is None
None == [unset |-> TRUE]

\* |hkl - rint(hkl)| of one peak, in quarter units: exactly indexed, or off
ExactHkl == <<0, 0, 0>>
OffHkl == <<1, 0, 2>>

\* the peaks a pattern is drawn from
PeakKinds == {[len |-> 1, az |-> 0], [len |-> 1, az |-> 1], [len |-> 2, az |-> 1]}
MagTols == {0, 1, 2}
AngleTols == {1}
PeaksToIndex == {2, 3}
\* index_error_tol, in the quarter units of the hkl errors
IndexErrorTols == {2}

Phase0 == [measurements |-> <<[m1 |-> 1, m2 |-> 1, angle |-> 1]>>]
Phase1 == [measurements |-> <<[m1 |-> 2, m2 |-> 1, angle |-> 1],
                              [m1 |-> 2, m2 |-> 2, angle |-> 0]>>]
Libraries == {<<Phase0>>, <<Phase0, Phase1>>}

\* the polar angle _cart2polar gives for a peak
PolarAngle(peak) == peak.az

\* angles.argsort(): indices of the peaks by ascending polar angle (ties in
\* input order, as numpy's sort of a short array leaves them)
ArgSortAngles(peaks) ==
    StableSort([i \in DOMAIN peaks |-> i],
               LAMBDA a, b : PolarAngle(peaks[a]) < PolarAngle(peaks[b]))

\* np.linspace(0, n - 1, num, dtype=int), as 1-based positions
LinspaceInt(n, num) ==
    [i \in 1 .. num |->
        IF num = 1 THEN 1 ELSE 1 + ((i - 1) * (n - 1)) \div (num - 1)]

_choose_peak_ids(peaks, n_peaks_to_index) ==
    LET order == ArgSortAngles(peaks)
        pos == LinspaceInt(Len(peaks), n_peaks_to_index)
    IN  [i \in DOMAIN pos |-> order[pos[i]]]

\* list(combinations(ids, 2)): pairs of positions a < b, in lexicographic order
Combinations2(ids) ==
    LET n == Len(ids)
        P == {<<a, b>> \in (1 .. n) \X (1 .. n) : a < b}
        Before(x, y) == x[1] < y[1] \/ (x[1] = y[1] /\ x[2] < y[2])
        rank(x) == 1 + Cardinality({y \in P : Before(y, x)})
    IN  [k \in 1 .. Cardinality(P) |->
            LET x == CHOOSE x \in P : rank(x) = k IN <<ids[x[1]], ids[x[2]]>>]

\* angle = get_angle_cartesian(q1, q2) for two peaks given by length and
\* azimuth (in quarter turns): 0 when either has zero norm, else the angle
\* between them in [0, half a turn]
PeakAngle(a, b) ==
    IF a.len * b.len = 0 THEN 0
    ELSE LET d == Abs(a.az - b.az) % 4 IN IF d > 2 THEN 4 - d ELSE d

\* q1, q2 with q1 the longer
OrderedPair(peaks, pair) ==
    IF peaks[pair[1]].len < peaks[pair[2]].len
    THEN <<pair[2], pair[1]>> ELSE pair

WithinTol(x, q, tol) == Abs(x - q) < tol

\* mutant: the second magnitude is not compared and the first inclusively
ToleranceMask_FirstOnly(measurements, q1, q2, mag_tol, angle_tol) ==
    {e \in DOMAIN measurements :
        /\ Abs(measurements[e].m1 - q1.len) <= mag_tol
        /\ WithinTol(measurements[e].angle, PeakAngle(q1, q2), angle_tol)}

\* tolerance_mask: the rows of the measurement table matching the pair
ToleranceMask(measurements, q1, q2, mag_tol, angle_tol) ==
    {e \in DOMAIN measurements :
        /\ WithinTol(measurements[e].m1, q1.len, mag_tol)
        /\ WithinTol(measurements[e].m2, q2.len, mag_tol)
        /\ WithinTol(measurements[e].angle, PeakAngle(q1, q2), angle_tol)}

\* the candidates of one phase: (position of the pair, matched table row)
Candidates(peaks, phase, ids, mag_tol, angle_tol) ==
    LET pairs == Combinations2(ids)
    IN  {c \in (DOMAIN pairs) \X (DOMAIN phase.measurements) :
            LET q == OrderedPair(peaks, pairs[c[1]])
            IN  c[2] \in ToleranceMask(phase.measurements, peaks[q[1]],
                                       peaks[q[2]], mag_tol, angle_tol)}

Outcomes == {"none", "pair", "all"}

\* ehkls = |hkls - rint(hkls)| of every peak under the candidate's rotation
Ehkls(outcome, pair, n) ==
    [k \in 1 .. n |->
        IF outcome = "all" \/ (outcome = "pair" /\ k \in {pair[1], pair[2]})
        THEN ExactHkl ELSE OffHkl]

Max3(t) == IF t[1] >= t[2] /\ t[1] >= t[3] THEN t[1]
           ELSE IF t[2] >= t[3] THEN t[2] ELSE t[3]

\* mutant: a peak whose error equals the tolerance counts as indexed
valid_peak_mask_Inclusive(ehkls, index_error_tol) ==
    {k \in DOMAIN ehkls : Max3(ehkls[k]) <= index_error_tol}

\* valid_peak_mask = np.max(ehkls, axis=-1) < index_error_tol
valid_peak_mask(ehkls, index_error_tol) ==
    {k \in DOMAIN ehkls : Max3(ehkls[k]) < index_error_tol}

RECURSIVE SumOver(_, _)
SumOver(f, S) ==
    IF S = {} THEN 0
    ELSE LET x == CHOOSE x \in S : TRUE IN f[x] + SumOver(f, S \ {x})

\* ehkls.mean(): the mean over all peaks and h, k, l, in units of 1 (the
\* entries are quarter units)
error_mean(ehkls) ==
    Frac(SumOver([k \in DOMAIN ehkls |-> ehkls[k][1] + ehkls[k][2] + ehkls[k][3]],
                 DOMAIN ehkls),
         4 * 3 * Len(ehkls))

\* match_rates = valid_peak_counts * (1 / num_peaks)
match_rate_of(ehkls, index_error_tol, num_peaks) ==
    Frac(Cardinality(valid_peak_mask(ehkls, index_error_tol)), num_peaks)

\* the rotation get_rotation_matrix_between_vectors finds for the pair
\* (q1, q2) and the reference vectors of table row e
RotationOf(q, e) == [q1 |-> q[1], q2 |-> q[2], ref |-> e]
Identity3 == [identity |-> TRUE]

\* the padding entry (phase_index=0 whatever the phase)
DummyResult == OrientationResult(0, Identity3, FZero, << >>, FOne)

\* the solutions of one phase: the candidates of match_rate > 0, in the
\* order of the pairs and, within a pair, of the table rows
Solutions(peaks, phase_index, ids, cands, ext, index_error_tol) ==
    LET pairs == Combinations2(ids)
        Before(x, y) == x[1] < y[1] \/ (x[1] = y[1] /\ x[2] < y[2])
        kept == {c \in cands :
                    FLess(FZero,
                          match_rate_of(Ehkls(ext[c], pairs[c[1]], Len(peaks)),
                                        index_error_tol, Len(peaks)))}
        rank(c) == 1 + Cardinality({d \in kept : Before(d, c)})
    IN  [k \in 1 .. Cardinality(kept) |->
            LET c == CHOOSE c \in kept : rank(c) = k
                ehkls == Ehkls(ext[c], pairs[c[1]], Len(peaks))
            IN  OrientationResult(phase_index,
                                  RotationOf(OrderedPair(peaks, pairs[c[1]]), c[2]),
                                  match_rate_of(ehkls, index_error_tol, Len(peaks)),
                                  ehkls, error_mean(ehkls))]

Min(a, b) == IF a < b THEN a ELSE b

\* top_matches after the block of phase_index has been written
WriteBlock(top_matches, phase_index, solutions, n_best) ==
    LET n_solutions == Min(n_best, Len(solutions))
        i == phase_index * n_best
        top_n == SubSeq(StableSort(solutions,
                                   LAMBDA x, y : FLess(y.match_rate, x.match_rate)),
                        1, n_solutions)
    IN  [k \in DOMAIN top_matches |->
            IF k > i /\ k <= i + n_solutions THEN top_n[k - i]
            ELSE IF k > i + n_solutions /\ k <= i + n_best THEN DummyResult
            ELSE top_matches[k]]

PeakInputs ==
    UNION {[1 .. n -> PeakKinds] : n \in 0 .. MaxPeaks}

InitMatch ==
    /\ call = "match_vectors"
    /\ args \in [peaks : PeakInputs, library : Libraries, mag_tol : MagTols,
                 angle_tol : AngleTols, index_error_tol : IndexErrorTols,
                 n_peaks_to_index : PeaksToIndex, n_best : 1 .. MaxBest]
    /\ result = [status |-> "running", phase_index |-> 0,
                 top_matches |-> [k \in 1 .. Len(args.library) * args.n_best |-> None]]

\* one iteration of the loop over the phases with fewer than 2 peaks: continue
SkipPhase ==
    /\ call = "match_vectors"
    /\ result.status = "running"
    /\ result.phase_index < Len(args.library)
    /\ Len(args.peaks) < 2
    /\ result' = [result EXCEPT !.phase_index = @ + 1]
    /\ UNCHANGED <<call, args>>

\* one iteration of the loop over the phases
MatchPhase ==
    /\ call = "match_vectors"
    /\ result.status = "running"
    /\ result.phase_index < Len(args.library)
    /\ Len(args.peaks) >= 2
    /\ LET phase == args.library[result.phase_index + 1]
           ids == _choose_peak_ids(args.peaks, args.n_peaks_to_index)
           cands == Candidates(args.peaks, phase, ids, args.mag_tol, args.angle_tol)
       IN  \E ext \in [cands -> Outcomes] :
               result' = [result EXCEPT
                   !.phase_index = @ + 1,
                   !.top_matches =
                       WriteBlock(@, result.phase_index,
                                  Solutions(args.peaks, result.phase_index, ids,
                                            cands, ext, args.index_error_tol),
                                  args.n_best)]
    /\ UNCHANGED <<call, args>>

\* res[0] = top_matches; return res
ReturnMatch ==
    /\ call = "match_vectors"
    /\ result.status = "running"
    /\ result.phase_index = Len(args.library)
    /\ result' = [status |-> "ok", top_matches |-> result.top_matches]
    /\ UNCHANGED <<call, args>>

NextMatch == SkipPhase \/ MatchPhase \/ ReturnMatch

SpecMatch == InitMatch /\ [][NextMatch]_vars

(* ==================== properties of match_vectors ===================== *)
MatchDone == call = "match_vectors" /\ result.status = "ok"

IsSet(m) == m # None
\* the padding entry, whatever its phase_index
IsSentinel(m) ==
    /\ IsSet(m)
    /\ m.rotation_matrix = Identity3
    /\ m.match_rate = FZero
    /\ m.total_error = FOne
\* an entry made from a candidate rotation
IsSolution(m) == IsSet(m) /\ m.rotation_matrix # Identity3

\* C7: match_vectors returns exactly P * n_best entries for every peaks
\* input (fewer than 2 peaks included); positions p*n_best ..
\* (p+1)*n_best-1 hold phase p's retained solutions in descending
\* match_rate order followed by sentinel entries (match_rate 0, identity
\* rotation, total_error 1.0); no position is left unset.
C7_UniformBlocks ==
    MatchDone =>
        LET tm == result.top_matches
            nb == args.n_best
        IN  /\ Len(tm) = Len(args.library) * nb
            /\ \A k \in DOMAIN tm : IsSet(tm[k])
            /\ \A p \in 0 .. Len(args.library) - 1 :
                   \E n \in 0 .. nb :
                       /\ \A k \in 1 .. n :
                              /\ IsSolution(tm[p * nb + k])
                              /\ tm[p * nb + k].phase_index = p
                       /\ \A k \in 1 .. n - 1 :
                              FLeq(tm[p * nb + k + 1].match_rate,
                                   tm[p * nb + k].match_rate)
                       /\ \A k \in n + 1 .. nb : IsSentinel(tm[p * nb + k])

\* number of peaks whose largest hkl error is strictly below the tolerance
IndexedPeaks(ehkls, tol) ==
    Cardinality({j \in DOMAIN ehkls : \A c \in 1 .. 3 : ehkls[j][c] < tol})

\* C8: the match_rate of every candidate rotation is the number of peaks,
\* over ALL input peaks, whose indexing error is strictly below
\* index_error_tol, divided by the number of input peaks; candidates of
\* match_rate 0 are never retained.
C8_MatchRate ==
    MatchDone =>
        \A k \in DOMAIN result.top_matches :
            LET m == result.top_matches[k]
            IN  IsSolution(m) =>
                    /\ Len(m.error_hkls) = Len(args.peaks)
                    /\ m.match_rate.n * Len(args.peaks) =
                           IndexedPeaks(m.error_hkls, args.index_error_tol)
                               * m.match_rate.d
                    /\ m.match_rate.n > 0

\* C8 witness: with 3 peaks of which 2 were selected for pairing, a
\* retained solution indexes all 3 peaks (match_rate 1) and another only
\* its pair (match_rate 2/3)
C8_Witness ==
    /\ MatchDone
    /\ Len(args.peaks) = 3
    /\ args.n_peaks_to_index = 2
    /\ \E k \in DOMAIN result.top_matches :
           /\ IsSolution(result.top_matches[k])
           /\ result.top_matches[k].match_rate = FOne
    /\ \E k \in DOMAIN result.top_matches :
           /\ IsSolution(result.top_matches[k])
           /\ result.top_matches[k].match_rate = Frac(2, 3)

\* the pair (q1 the longer) has exactly the magnitudes of table row e of
\* phase p
ExactMagnitudes(q1, q2, p, e) ==
    LET row == args.library[p + 1].measurements[e]
    IN  row.m1 = args.peaks[q1].len /\ row.m2 = args.peaks[q2].len

\* some pair of peaks has exactly the magnitudes of some table row
SomeExactPair ==
    \E i, j \in DOMAIN args.peaks, p \in 0 .. Len(args.library) - 1 :
        \E e \in DOMAIN args.library[p + 1].measurements :
            i # j /\ ExactMagnitudes(i, j, p, e)

MaxTemplates == 3
\* largest n_largest
MaxLargest == 2

Correlations == {-1, 0, 1, 2}
\* what the uninitialised rows of or_saved = np.empty((n_largest, 3)) hold
UninitValues == {0, 9}

\* a phase's templates: template t has orientation label t and score corr
TemplateSeqs ==
    UNION {[1 .. n -> Correlations] : n \in 1 .. MaxTemplates}
LibraryEntry(corrs) == [t \in DOMAIN corrs |-> [orientation |-> t, corr |-> corrs[t]]]

\* mutant: the first retained entry is replaced, not the minimum
ArgMin_First(corr_saved) == 1

\* np.argmin: the first index holding the minimum
ArgMin(corr_saved) ==
    CHOOSE i \in DOMAIN corr_saved :
        /\ \A j \in DOMAIN corr_saved : corr_saved[i] <= corr_saved[j]
        /\ \A j \in DOMAIN corr_saved : j < i => corr_saved[j] > corr_saved[i]

\* the loop over the templates of a phase from template t on: a template
\* replaces the minimum of corr_saved when its score is above that minimum
RECURSIVE RetainLargest(_, _, _, _)
RetainLargest(templates, t, or_saved, corr_saved) ==
    IF t > Len(templates) THEN [or_saved |-> or_saved, corr_saved |-> corr_saved]
    ELSE LET m == ArgMin(corr_saved)
         IN  IF templates[t].corr > corr_saved[m]
             THEN RetainLargest(templates, t + 1,
                                [or_saved EXCEPT ![m] = templates[t].orientation],
                                [corr_saved EXCEPT ![m] = templates[t].corr])
             ELSE RetainLargest(templates, t + 1, or_saved, corr_saved)

\* combined_array[np.flip(combined_array[:, 3].argsort())]: the retained
\* rows by descending score
SortedBlock(phase_index, saved) ==
    LET order == Reverse(StableSort([i \in DOMAIN saved.corr_saved |-> i],
                     LAMBDA a, b : saved.corr_saved[a] < saved.corr_saved[b]))
    IN  [i \in DOMAIN order |->
            TemplateRow(phase_index, saved.or_saved[order[i]],
                        saved.corr_saved[order[i]])]

\* top_matches[phase_index, :, :] after the last template of the phase
CorrelatePhaseBlock(phase_index, templates, n_largest, uninit) ==
    SortedBlock(phase_index,
                RetainLargest(templates, 1,
                              [i \in 1 .. n_largest |-> uninit],
                              [i \in 1 .. n_largest |-> 0]))

InitCorrelate ==
    /\ call \in {"correlate_library", "correlate_library_from_dict"}
    /\ args \in [n_phases : {1, 2}, n_largest : 1 .. MaxLargest, mask : {0, 1},
                 uninit : UninitValues]
    /\ result = [status |-> "running", phase_index |-> 0, library_entry |-> << >>,
                 top_matches |-> [k \in 1 .. args.n_phases * args.n_largest |-> None]]

IsCorrelate == call \in {"correlate_library", "correlate_library_from_dict"}

\* one iteration of the loop over the phases (mask == 1)
CorrelatePhase ==
    /\ IsCorrelate
    /\ result.status = "running"
    /\ args.mask = 1
    /\ result.phase_index < args.n_phases
    /\ \E corrs \in TemplateSeqs :
           LET block == CorrelatePhaseBlock(result.phase_index, LibraryEntry(corrs),
                                            args.n_largest, args.uninit)
               i == result.phase_index * args.n_largest
           IN  result' = [result EXCEPT
                   !.phase_index = @ + 1,
                   !.library_entry = LibraryEntry(corrs),
                   !.top_matches = [k \in DOMAIN @ |->
                        IF k > i /\ k <= i + args.n_largest THEN block[k - i]
                        ELSE @[k]]]
    /\ UNCHANGED <<call, args>>

\* return top_matches.reshape(-1, 3)
ReturnCorrelate ==
    /\ IsCorrelate
    /\ result.status = "running"
    /\ args.mask # 1 \/ result.phase_index = args.n_phases
    /\ result' = [result EXCEPT !.status = "ok"]
    /\ UNCHANGED <<call, args>>

NextCorrelate == CorrelatePhase \/ ReturnCorrelate

SpecCorrelate == InitCorrelate /\ [][NextCorrelate]_vars

(* =================== properties of correlate_library ================== *)
\* the block of the phase whose templates are result.library_entry
LastBlock(r) ==
    SubSeq(r.top_matches, (r.phase_index - 1) * args.n_largest + 1,
           r.phase_index * args.n_largest)

Descending(corrs) == StableSort(corrs, LAMBDA x, y : x > y)

CorrsOf(templates) == [t \in DOMAIN templates |-> templates[t].corr]

\* the n highest of corrs in descending order, 0 where corrs has no more
TopWithZeros(corrs, n) ==
    LET d == Descending(corrs)
    IN  [i \in 1 .. n |-> IF i <= Len(d) THEN d[i] ELSE 0]

Positive(corrs) == SelectSeq(corrs, LAMBDA c : c > 0)

TopOfPositive(r) ==
    LET block == LastBlock(r)
    IN  /\ Len(r.top_matches) = args.n_phases * args.n_largest
        /\ ScoresOf(block) =
               TopWithZeros(Positive(CorrsOf(r.library_entry)), args.n_largest)
        /\ \A i \in DOMAIN block :
               /\ block[i].phase = r.phase_index - 1
               /\ block[i].score > 0 =>
                      /\ block[i].orientation \in DOMAIN r.library_entry
                      /\ r.library_entry[block[i].orientation].corr = block[i].score
                      /\ \A j \in DOMAIN block :
                             j # i => block[j].orientation # block[i].orientation

MaxPix == 2

MaxIntensity == 1

FAdd(a, b) == Frac(a.n * b.d + b.n * a.d, a.d * b.d)

RECURSIVE SumSeq(_)
\* np.sum of a 1-d array
SumSeq(s) == IF s = << >> THEN 0 ELSE Head(s) + SumSeq(Tail(s))

\* np.sum(np.multiply(a, b))
SumMultiply(a, b) == SumSeq([i \in DOMAIN a |-> a[i] * b[i]])

\* a float numerator / sqrt-valued denominator the model keeps unevaluated
Ratio(num, den) == [k |-> "ratio", num |-> num, den |-> den]

Value(v) == [status |-> "ok", value |-> v]

\* numpy scalar / pn_local: np.sum gives a numpy scalar, so a zero pn_local
\* gives nan or inf, never an exception
fast_correlation(image_intensities, int_local, pn_local) ==
    Value(Quot(FInt(SumMultiply(image_intensities, int_local)), FInt(pn_local)))

average_pattern_intensity(nb_pixels, int_local) == Frac(SumSeq(int_local), nb_pixels)

\* np.linalg.norm(int_local - average_pattern_intensity) ** 2
NormSquared(int_local, avg) ==
    LET d(j) == FSub(FInt(int_local[j]), avg)
        sq == [j \in DOMAIN int_local |-> FMul(d(j), d(j))]
        F[j \in 0 .. Len(int_local)] ==
            IF j = 0 THEN FZero ELSE FAdd(F[j - 1], sq[j])
    IN  F[Len(int_local)]

\* (nb_pixels - nb_pixels_star) * pow(average_pattern_intensity, 2)
PaddingTerm(nb_pixels, int_local) ==
    LET avg == average_pattern_intensity(nb_pixels, int_local)
    IN  FMul(FInt(nb_pixels - Len(int_local)), FMul(avg, avg))

\* match_denominator == 0: image_std * (sqrt(S) + t) is zero
match_denominator_is_zero(nb_pixels, image_std, int_local) ==
    LET avg == average_pattern_intensity(nb_pixels, int_local)
        S == NormSquared(int_local, avg)
        t == PaddingTerm(nb_pixels, int_local)
    IN  image_std = 0 \/ (FLeq(t, FZero) /\ S = FMul(t, t))

match_numerator(nb_pixels, average_image_intensity, image_intensities, int_local) ==
    FSub(FInt(SumMultiply(image_intensities, int_local)),
         FMul(FInt(nb_pixels * average_image_intensity),
              average_pattern_intensity(nb_pixels, int_local)))

zero_mean_normalized_correlation(nb_pixels, image_std, average_image_intensity, image_intensities, int_local) ==
    LET avg == average_pattern_intensity(nb_pixels, int_local)
    IN  IF match_denominator_is_zero(nb_pixels, image_std, int_local)
        THEN Value(FZero)
        ELSE Value(Ratio(match_numerator(nb_pixels, average_image_intensity,
                                         image_intensities, int_local),
                         [image_std |-> image_std,
                          norm_sq |-> NormSquared(int_local, avg),
                          padding |-> PaddingTerm(nb_pixels, int_local)]))

\* 1 - template_sum**2/n, the radicand of the denominator
PearsonRadicand(template_intensities, n) ==
    LET template_sum == SumSeq(template_intensities)
    IN  Frac(n - template_sum * template_sum, n)

\* compiled by numba a float division by zero raises ZeroDivisionError;
\* interpreted (jit disabled) it is a numpy division giving nan or inf
_pearson_correlation(image_intensities, template_intensities, n, jit) ==
    LET numerator == FInt(SumMultiply(image_intensities, template_intensities))
        rad == PearsonRadicand(template_intensities, n)
    IN  IF FLess(rad, FZero) THEN Value(NaN)
        ELSE IF rad = FZero
             THEN IF jit = "numba" THEN Raise("ZeroDivisionError")
                  ELSE Value(NpDivZero(numerator))
        ELSE Value(Ratio(numerator, [radicand |-> rad]))

Intensities == 0 .. MaxIntensity

\* an image sample and a template of the same number of pixels
IntensityPairs ==
    UNION {[image_intensities : [1 .. n -> Intensities],
            int_local : [1 .. n -> Intensities]] : n \in 1 .. MaxPix}

PatternNorms == 0 .. MaxPix

NbPixels == 1 .. MaxPix + 1

ImageStds == {0, 1}

PolarSizes == {k * k : k \in 1 .. MaxPix}

Jits == {"numba", "python"}

InitFast ==
    /\ call = "fast_correlation"
    /\ \E v \in IntensityPairs, pn \in PatternNorms :
           args = [image_intensities |-> v.image_intensities,
                   int_local |-> v.int_local, pn_local |-> pn]
    /\ result = Pending

InitZncc ==
    /\ call = "zero_mean_normalized_correlation"
    /\ \E v \in IntensityPairs, nb \in NbPixels, std \in ImageStds,
          avg \in Intensities :
           args = [image_intensities |-> v.image_intensities,
                   int_local |-> v.int_local, nb_pixels |-> nb,
                   image_std |-> std, average_image_intensity |-> avg]
    /\ result = Pending

InitPearson ==
    /\ call = "_pearson_correlation"
    /\ \E v \in IntensityPairs, n \in PolarSizes, jit \in Jits :
           args = [image_intensities |-> v.image_intensities,
                   template_intensities |-> v.int_local, n |-> n, jit |-> jit]
    /\ result = Pending

CallFast ==
    /\ call = "fast_correlation"
    /\ result = Pending
    /\ result' = fast_correlation(args.image_intensities, args.int_local,
                                  args.pn_local)
    /\ UNCHANGED <<call, args>>

CallZncc ==
    /\ call = "zero_mean_normalized_correlation"
    /\ result = Pending
    /\ result' = zero_mean_normalized_correlation(
                     args.nb_pixels, args.image_std, args.average_image_intensity,
                     args.image_intensities, args.int_local)
    /\ UNCHANGED <<call, args>>

CallPearson ==
    /\ call = "_pearson_correlation"
    /\ result = Pending
    /\ result' = _pearson_correlation(args.image_intensities,
                                      args.template_intensities, args.n, args.jit)
    /\ UNCHANGED <<call, args>>

InitMetrics == InitFast \/ InitZncc \/ InitPearson

NextMetrics == CallFast \/ CallZncc \/ CallPearson

SpecMetrics == InitMetrics /\ [][NextMetrics]_vars

(* ================ properties of the correlation metrics =============== *)
MetricDone ==
    /\ call \in {"fast_correlation", "zero_mean_normalized_correlation",
                 "_pearson_correlation"}
    /\ result # Pending

\* the denominator of the metric called vanishes
DenominatorVanishes ==
    CASE call = "fast_correlation" -> args.pn_local = 0
      [] call = "zero_mean_normalized_correlation" ->
             match_denominator_is_zero(args.nb_pixels, args.image_std,
                                       args.int_local)
      [] call = "_pearson_correlation" ->
             args.n = SumSeq(args.template_intensities)
                      * SumSeq(args.template_intensities)
      [] OTHER -> FALSE

\* C11: every correlation metric returns 0, neither nan nor an error, when
\* its denominator vanishes (pn_local == 0 for fast_correlation,
\* match_denominator == 0 for zero_mean_normalized_correlation,
\* 1 - template_sum^2/n == 0 for _pearson_correlation).
C11_ZeroDenominator ==
    (MetricDone /\ DenominatorVanishes) => result = Value(FZero)

(* ================= two-stage search over polar templates =============== *)
\* bounds: templates of the library, rows asked for
MaxLib == 3

MaxNBest == 2

\* coarse (azimuthally integrated) score of a template
CoarseScores == {0, 1, 2}

\* what _match_polar_to_polar_library finds for a template: the best
\* correlation and the in-plane angle (degrees) where it is found
FullResults == {[cor |-> 1, angle |-> 0], [cor |-> 2, angle |-> 90]}

Keeps == {FInt(k) : k \in 0 .. MaxLib + 1} \cup {Frac(1, 2)}

\* the else branch: keep is neither >= 1 nor in (0, 1]
KeepRaises(keep) == ~FLeq(FOne, keep) /\ ~FLess(FZero, keep)

\* fraction of the templates the coarse filter drops
fraction_of_keep(keep, n_templates) ==
    IF FLeq(FOne, keep)
    THEN LET f == FDiv(FSub(FInt(n_templates), keep), FInt(n_templates))
         IN  IF FLess(f, FZero) THEN FZero ELSE f
    ELSE FSub(FOne, keep)

\* np.percentile(coors, fraction * 100): linear interpolation between the
\* two order statistics around position fraction * (N - 1)
percentile(coors, fraction) ==
    LET n == Len(coors)
        s == StableSort(coors, LAMBDA x, y : x < y)
        pos == FMul(fraction, FInt(n - 1))
        lo == pos.n \div pos.d
        hi == IF lo + 2 <= n THEN lo + 2 ELSE n
        g == FSub(pos, FInt(lo))
    IN  FAdd(FInt(s[lo + 1]), FMul(g, FInt(s[hi] - s[lo + 1])))

\* condition = coors > lowest
CoarseCondition(coors, fraction) ==
    [i \in DOMAIN coors |-> FLess(percentile(coors, fraction), FInt(coors[i]))]

\* positions (1-based) of the templates selected by the boolean mask
Selected(condition) ==
    SelectSeq([i \in DOMAIN condition |-> i], LAMBDA i : condition[i])

\* the orders np.argsort(-full_cors) can give: descending, ties in any order
ArgSortDescending(full_cors) ==
    {p \in [DOMAIN full_cors -> DOMAIN full_cors] :
        /\ \A i, j \in DOMAIN p : i # j => p[i] # p[j]
        /\ \A i, j \in DOMAIN p : i < j => full_cors[p[i]] >= full_cors[p[j]]}

AnswerRow(index, cor, angle) == [index |-> index, cor |-> cor, angle |-> angle]

\* a row read through an index past the end of indices_sorted[:n_best]
GarbageIndexes == {-1, 0}

GarbageRow(g) == AnswerRow(g, -1, -1)

\* stage 2 and the choice of the n_best rows; indices_sorted and garbage are
\* what the argsort and an out-of-bounds read happen to give
_mixed_matching_lib_to_polar(coors, full, fraction, n_best, jit, indices_sorted, garbage) ==
    LET condition == CoarseCondition(coors, fraction)
        filter == Selected(condition)
        n_filter == Len(filter)
        full_cors == [k \in 1 .. n_filter |-> full[filter[k]].cor]
        full_angles == [k \in 1 .. n_filter |-> full[filter[k]].angle]
        template_indexes_filter == [k \in 1 .. n_filter |-> filter[k] - 1]
        row(k) == AnswerRow(template_indexes_filter[k], full_cors[k],
                            full_angles[k])
    IN  IF n_best = 1
        THEN IF n_filter = 0 THEN Raise("ValueError")
             ELSE [status |-> "ok", condition |-> condition,
                   answer |-> <<row(ArgMax(full_cors))>>]
        ELSE IF n_filter < n_best /\ jit = "python" THEN Raise("IndexError")
        ELSE [status |-> "ok", condition |-> condition,
              answer |-> [i \in 1 .. n_best |->
                             IF i <= n_filter THEN row(indices_sorted[i])
                             ELSE GarbageRow(garbage)]]

SurvivorCors(coors, full, fraction) ==
    LET filter == Selected(CoarseCondition(coors, fraction))
    IN  [k \in 1 .. Len(filter) |-> full[filter[k]].cor]

get_n_best_matches(coors, full, n_best, keep, jit, indices_sorted, garbage) ==
    IF KeepRaises(keep) THEN Raise("ValueError")
    ELSE LET r == _mixed_matching_lib_to_polar(
                      coors, full, fraction_of_keep(keep, Len(coors)), n_best,
                      jit, indices_sorted, garbage)
         IN  IF r.status # "ok" THEN r
             ELSE [status |-> "ok", condition |-> r.condition,
                   indices |-> [i \in DOMAIN r.answer |-> r.answer[i].index],
                   cors |-> [i \in DOMAIN r.answer |-> r.answer[i].cor],
                   angles |-> [i \in DOMAIN r.answer |-> r.answer[i].angle]]

\* _get_correlation_at_angle for one template: its correlation at the
\* in-plane angle shifted by 180 degrees
CorrelationAtAngle180(template_index, angle) ==
    [inverse_of |-> template_index, at |-> (angle + 180) % 360]

correlate_library_to_pattern_partial(coors, full, keep) ==
    IF KeepRaises(keep) THEN Raise("ValueError")
    ELSE LET condition == CoarseCondition(coors, fraction_of_keep(keep, Len(coors)))
             filter == Selected(condition)
             idx == 1 .. Len(filter)
         IN  [status |-> "ok", condition |-> condition,
              template_indexes_filter |-> [k \in idx |-> filter[k] - 1],
              full_angles |-> [k \in idx |-> full[filter[k]].angle],
              full_cors |-> [k \in idx |-> full[filter[k]].cor],
              full_cors_180 |-> [k \in idx |->
                  CorrelationAtAngle180(filter[k] - 1, full[filter[k]].angle)]]

\* the coarse scores and the stage-2 results of a library of n templates
PolarLibraries ==
    UNION {[coors : [1 .. n -> CoarseScores], full : [1 .. n -> FullResults]] :
           n \in 1 .. MaxLib}

InitNBest ==
    /\ call = "get_n_best_matches"
    /\ \E lib \in PolarLibraries, keep \in Keeps, n_best \in 1 .. MaxNBest,
          jit \in Jits :
           args = [coors |-> lib.coors, full |-> lib.full, keep |-> keep,
                   n_best |-> n_best, jit |-> jit]
    /\ result = Pending

InitPartial ==
    /\ call = "correlate_library_to_pattern_partial"
    /\ \E lib \in PolarLibraries, keep \in Keeps :
           args = [coors |-> lib.coors, full |-> lib.full, keep |-> keep]
    /\ result = Pending

CallNBest ==
    /\ call = "get_n_best_matches"
    /\ result = Pending
    /\ \E garbage \in GarbageIndexes :
       \E indices_sorted \in
              IF KeepRaises(args.keep) THEN {<< >>}
              ELSE ArgSortDescending(SurvivorCors(args.coors, args.full,
                       fraction_of_keep(args.keep, Len(args.coors)))) :
           result' = get_n_best_matches(args.coors, args.full, args.n_best,
                                        args.keep, args.jit, indices_sorted,
                                        garbage)
    /\ UNCHANGED <<call, args>>

CallPartial ==
    /\ call = "correlate_library_to_pattern_partial"
    /\ result = Pending
    /\ result' = correlate_library_to_pattern_partial(args.coors, args.full,
                                                      args.keep)
    /\ UNCHANGED <<call, args>>

InitPolar == InitNBest \/ InitPartial

NextPolar == CallNBest \/ CallPartial

SpecPolar == InitPolar /\ [][NextPolar]_vars

(* ================= properties of the two-stage search ================= *)
PolarDone ==
    /\ call \in {"get_n_best_matches", "correlate_library_to_pattern_partial"}
    /\ result # Pending

\* templates the coarse filter let through
Survivors == Cardinality({i \in DOMAIN result.condition : result.condition[i]})

\* count is keep * n to the nearest whole template
NearestWhole(count, keep, n) ==
    LET d == FSub(FInt(count), FMul(keep, FInt(n)))
    IN  FLeq(FInt(-1), FMul(FInt(2), d)) /\ FLeq(FMul(FInt(2), d), FOne)

\* C12: keep fixes how many of the N templates survive the coarse filter:
\* exactly min(keep, N) for keep >= 1, the proportion keep of N (to the
\* nearest whole template) for 0 < keep < 1, whatever the coarse scores,
\* tied ones included.
C12_KeepSurvivors ==
    (PolarDone /\ ~KeepRaises(args.keep)) =>
        LET n == Len(args.coors)
        IN  /\ result.status = "ok"
            /\ IF FLeq(FOne, args.keep)
               THEN Survivors = Min(args.keep.n, n)
               ELSE NearestWhole(Survivors, args.keep, n)

\* C14: get_n_best_matches reports for each of the n_best returned templates
\* its index, best-fit angle and correlation, and also the correlation of
\* the 180-degree-rotated template at the best-fit angle.
C14_InverseCorrelation ==
    (call = "get_n_best_matches" /\ result # Pending /\ result.status = "ok") =>
        /\ Len(result.indices) = args.n_best
        /\ "cors_180" \in DOMAIN result
        /\ result.cors_180 =
               [i \in DOMAIN result.indices |->
                    CorrelationAtAngle180(result.indices[i], result.angles[i])]

(* ============== index_dataset_with_template_rotation ================== *)
\* bound: length of a navigation axis
MaxNav == 2

IntWorkers == [kind |-> "int"]

\* parallel_workers: "auto", an int, or something that is not an int
ParallelWorkers == {[kind |-> "auto"], IntWorkers, [kind |-> "str"]}

\* workers after lines 1451-1454; os.cpu_count() is an int
workers_of(parallel_workers) ==
    IF parallel_workers.kind = "auto" THEN IntWorkers ELSE parallel_workers

\* the navigation shapes of a signal, navigation_dimension 0 .. 3
NavShapes == UNION {[1 .. navdim -> 1 .. MaxNav] : navdim \in 0 .. 3}

SignalShape == <<2, 2>>

\* mutant: the singleton axis of a 1-d navigation is put behind it
Normalise_Trailing(nav_shape) ==
    CASE Len(nav_shape) = 0 -> <<1, 1>> \o SignalShape
      [] Len(nav_shape) = 1 -> nav_shape \o <<1>> \o SignalShape
      [] OTHER -> nav_shape \o SignalShape

\* data[np.newaxis, np.newaxis, ...], data[np.newaxis, ...] or data
Normalise(nav_shape) ==
    CASE Len(nav_shape) = 0 -> <<1, 1>> \o SignalShape
      [] Len(nav_shape) = 1 -> <<1>> \o nav_shape \o SignalShape
      [] OTHER -> nav_shape \o SignalShape

\* the block lengths a rechunk can give an axis of length n
Chunkings(n) ==
    {c \in UNION {[1 .. k -> 1 .. n] : k \in 1 .. n} : SumSeq(c) = n}

PhaseLists == {<< >>, <<"a">>, <<"a", "b">>}

DatasetKeeps == {FInt(0), FInt(1), Frac(1, 2)}

\* first index (0-based) of block b of an axis chunked as chunks
Offset(chunks, b) == SumSeq(SubSeq(chunks, 1, b - 1))

\* the prange iterations of all _index_chunk calls of one compute:
\* block (b0, b1), position (idx, idy) inside the block
Workers(chunks0, chunks1) ==
    {w \in (DOMAIN chunks0) \X (DOMAIN chunks1) \X (0 .. MaxNav) \X (0 .. MaxNav) :
        w[3] < chunks0[w[1]] /\ w[4] < chunks1[w[2]]}

\* pattern = polar_images[idx, idy] of the block: the pattern of the dataset
\* at the block's offset plus (idx, idy)
PatternRead(chunks0, chunks1, w) ==
    [pattern |-> <<Offset(chunks0, w[1]) + w[3], Offset(chunks1, w[2]) + w[4]>>]

\* mutant: the block's result is stored without the block's offset
WritePosition_Local(chunks0, chunks1, w) == <<w[3], w[4]>>

\* where indexation_result_chunk[idx, idy] of the block lies in res_index
WritePosition(chunks0, chunks1, w) ==
    <<Offset(chunks0, w[1]) + w[3], Offset(chunks1, w[2]) + w[4]>>

\* _mixed_matching_lib_to_polar of one pattern against one phase's templates
MatchOf(phase_key, pattern) == [phase |-> phase_key, of |-> pattern]

Grid(chunks0, chunks1) ==
    (0 .. SumSeq(chunks0) - 1) \X (0 .. SumSeq(chunks1) - 1)

\* res_index[:, :, :, col]
Slice(shape, rows, col) ==
    [shape |-> SubSeq(shape, 1, 3),
     rows |-> [pos \in DOMAIN rows |-> [col |-> col, from |-> rows[pos]]]]

NoChunks == << >>

\* the template library, one entry per phase key: the Euler angles of the
\* templates (the first is the in-plane angle) and their simulations
TemplateLibrary ==
    [phase_key \in {"a", "b"} |->
        [orientations |-> <<<<0, 10, 20>>, <<0, 30, 40>>>>,
         simulations |-> <<[coordinates |-> <<<<1, 0>>>>, intensities |-> <<1>>],
                          [coordinates |-> <<<<0, 1>>>>, intensities |-> <<1>>]>>]]

\* the last value written at a position of res_index (np.empty storage that
\* was never written reads as the row of pattern (0, 0))
RowAt(res_index, pos, phase_key) ==
    IF res_index[pos] = << >> THEN MatchOf(phase_key, [pattern |-> <<0, 0>>])
    ELSE res_index[pos][Len(res_index[pos])]

\* res_index[i, j, b, 0] and res_index[i, j, b, 2]: the template and the
\* in-plane angle the matcher found as b-th best for a pattern
TemplateIndexOf(row, b) == (row.of.pattern[1] + row.of.pattern[2] + b) % 2
AngleOf(row, b) == 1 + 10 * row.of.pattern[1] + row.of.pattern[2] + 100 * b

\* mutant: indexing with an index array gives a view of the rows of oris
TakeRows_View(oris, index) ==
    [base |-> "oris", index |-> index,
     rows |-> [pos \in DOMAIN index |->
                  [b \in DOMAIN index[pos] |-> oris[index[pos][b] + 1]]]]

\* oris[res_index[:,:,:,0].astype(np.uint64)]: indexing with an index array
\* gives a new array holding copies of the rows
TakeRows(oris, index) ==
    [base |-> "new", index |-> index,
     rows |-> [pos \in DOMAIN index |->
                  [b \in DOMAIN index[pos] |-> oris[index[pos][b] + 1]]]]

\* orimap[:,:,:,0] = angles: the write reaches oris where orimap is a view
\* of it (the last position written wins)
AssignFirstColumn(oris, orimap, angles) ==
    LET written(t) == {<<pos, b>> \in UNION {{pos} \X DOMAIN orimap.index[pos] :
                                                pos \in DOMAIN orimap.index} :
                          orimap.index[pos][b] + 1 = t}
        last(t) == CHOOSE w \in written(t) : TRUE
        oris_after ==
            IF orimap.base = "oris"
            THEN [t \in DOMAIN oris |->
                     IF written(t) = {} THEN oris[t]
                     ELSE [oris[t] EXCEPT ![1] = angles[last(t)[1]][last(t)[2]]]]
            ELSE oris
    IN  [oris |-> oris_after,
         orimap |-> [pos \in DOMAIN orimap.rows |->
                        [b \in DOMAIN orimap.rows[pos] |->
                            IF orimap.base = "oris"
                            THEN oris_after[orimap.index[pos][b] + 1]
                            ELSE [orimap.rows[pos][b] EXCEPT ![1] = angles[pos][b]]]]]

InitDataset ==
    /\ call = "index_dataset_with_template_rotation"
    /\ args \in [parallel_workers : ParallelWorkers, nav_shape : NavShapes,
                 phases : PhaseLists, keep : DatasetKeeps,
                 n_best : 1 .. MaxNBest]
    /\ result = [status |-> "start", data_shape |-> << >>, chunks0 |-> NoChunks,
                 chunks1 |-> NoChunks, phase_i |-> 0, done |-> {},
                 res_index |-> << >>, result |-> << >>, indexed |-> 0,
                 library |-> TemplateLibrary]

IsDataset == call = "index_dataset_with_template_rotation"

\* lines 1451-1497: the worker count, the navigation axes, the rechunk
PrepareDataset ==
    /\ IsDataset
    /\ result.status = "start"
    /\ IF workers_of(args.parallel_workers) # IntWorkers
       THEN result' = [result EXCEPT !.status = "TypeError"]
       ELSE IF Len(args.nav_shape) > 2
       THEN result' = [result EXCEPT !.status = "ValueError"]
       ELSE LET data_shape == Normalise(args.nav_shape)
            IN  \E c0 \in Chunkings(data_shape[1]), c1 \in Chunkings(data_shape[2]) :
                    result' = [result EXCEPT !.status = "phases",
                                             !.data_shape = data_shape,
                                             !.chunks0 = c0, !.chunks1 = c1]
    /\ UNCHANGED <<call, args>>

\* lines 1498-1529: one phase's templates, the keep check, the lazy graph
StartPhase ==
    /\ IsDataset
    /\ result.status = "phases"
    /\ result.phase_i < Len(args.phases)
    /\ IF KeepRaises(args.keep)
       THEN result' = [result EXCEPT !.status = "ValueError"]
       ELSE result' = [result EXCEPT
                !.status = "computing", !.done = {},
                !.res_index = [pos \in Grid(result.chunks0, result.chunks1) |-> << >>]]
    /\ UNCHANGED <<call, args>>

\* lines 1174-1186: one iteration of the parallel loops of one block
IndexPosition ==
    /\ IsDataset
    /\ result.status = "computing"
    /\ \E w \in Workers(result.chunks0, result.chunks1) \ result.done :
           LET pos == WritePosition(result.chunks0, result.chunks1, w)
               row == MatchOf(args.phases[result.phase_i + 1],
                              PatternRead(result.chunks0, result.chunks1, w))
           IN  result' = [result EXCEPT
                   !.done = @ \cup {w},
                   !.indexed = 1,
                   !.res_index = [@ EXCEPT ![pos] = Append(@, row)]]
    /\ UNCHANGED <<call, args>>

\* the matcher of one position raises (no template passed the coarse
\* filter): the compute of line 1532 raises
IndexRaises ==
    /\ IsDataset
    /\ result.status = "computing"
    /\ args.n_best = 1
    /\ result.done # Workers(result.chunks0, result.chunks1)
    /\ result' = [result EXCEPT !.status = "ValueError", !.indexed = 1]
    /\ UNCHANGED <<call, args>>

\* lines 1532-1539: compute() returns, the phase's arrays are stored
FinishPhase ==
    /\ IsDataset
    /\ result.status = "computing"
    /\ result.done = Workers(result.chunks0, result.chunks1)
    /\ LET shape == <<SumSeq(result.chunks0), SumSeq(result.chunks1),
                      args.n_best, 3>>
           phase_key == args.phases[result.phase_i + 1]
           row(pos) == RowAt(result.res_index, pos, phase_key)
           index == [pos \in DOMAIN result.res_index |->
                        [b \in 1 .. args.n_best |-> TemplateIndexOf(row(pos), b - 1)]]
           angles == [pos \in DOMAIN result.res_index |->
                         [b \in 1 .. args.n_best |-> AngleOf(row(pos), b - 1)]]
           oris == result.library[phase_key].orientations
           stored == AssignFirstColumn(oris, TakeRows(oris, index), angles)
       IN  result' = [result EXCEPT
               !.status = "phases",
               !.phase_i = @ + 1,
               !.library[phase_key].orientations = stored.oris,
               !.result = Append(@,
                   [phase_key |-> phase_key,
                    template_index |-> Slice(shape, result.res_index, 0),
                    orientation |-> stored.orimap,
                    correlation |-> Slice(shape, result.res_index, 1)])]
    /\ UNCHANGED <<call, args>>

\* line 1540
ReturnDataset ==
    /\ IsDataset
    /\ result.status = "phases"
    /\ result.phase_i = Len(args.phases)
    /\ result' = [result EXCEPT !.status = "ok"]
    /\ UNCHANGED <<call, args>>

NextDataset ==
    \/ PrepareDataset
    \/ StartPhase
    \/ IndexPosition
    \/ IndexRaises
    \/ FinishPhase
    \/ ReturnDataset

SpecDataset == InitDataset /\ [][NextDataset]_vars

(* ========= properties of index_dataset_with_template_rotation ========= *)
WorkersInvalid == workers_of(args.parallel_workers) # IntWorkers

NavigationInvalid == Len(args.nav_shape) > 2

InvalidConfiguration ==
    WorkersInvalid \/ NavigationInvalid \/ KeepRaises(args.keep)

\* C13: an invalid configuration is rejected before any work: a
\* parallel_workers that is neither "auto" nor an int raises TypeError, more
\* than 2 navigation dimensions and keep <= 0 raise ValueError, and in every
\* such call, for every phases list, no block has been indexed and no
\* result is returned.
C13_RejectedBeforeWork ==
    (IsDataset /\ InvalidConfiguration) =>
        /\ result.indexed = 0
        /\ result.result = << >>
        /\ result.status \in
               {"start", "phases",
                IF WorkersInvalid THEN "TypeError" ELSE "ValueError"}
        /\ (result.status = "phases" => result.phase_i < Len(args.phases))

\* shape of the per-phase output arrays the navigation shape should give
NavigationOutputShape(nav_shape, n_best) ==
    CASE Len(nav_shape) = 0 -> <<1, 1, n_best>>
      [] Len(nav_shape) = 1 -> <<1, nav_shape[1], n_best>>
      [] OTHER -> <<nav_shape[1], nav_shape[2], n_best>>

\* C15: the navigation dimensionality is normalised to exactly 2 before
\* chunking (two leading singleton axes for 0 navigation axes, one leading
\* singleton axis for 1, unchanged for 2), so every per-phase output array
\* has shape (nav0, nav1, n_best); more than 2 navigation axes give
\* ValueError.
C15_NavigationNormalised ==
    (IsDataset /\ ~WorkersInvalid /\ result.status # "start") =>
        IF NavigationInvalid
        THEN result.status = "ValueError" /\ result.indexed = 0
        ELSE LET shape == NavigationOutputShape(args.nav_shape, args.n_best)
             IN  /\ Len(result.data_shape) = 4
                 /\ SubSeq(result.data_shape, 1, 2) = SubSeq(shape, 1, 2)
                 /\ \A k \in DOMAIN result.result :
                        /\ result.result[k].template_index.shape = shape
                        /\ result.result[k].correlation.shape = shape
                        /\ DOMAIN result.result[k].correlation.rows =
                               (0 .. shape[1] - 1) \X (0 .. shape[2] - 1)

C15_Witness ==
    /\ IsDataset
    /\ result.status = "ok"
    /\ args.nav_shape = <<2>>
    /\ Len(result.result) = 2
    /\ result.result[2].template_index.shape = <<1, 2, args.n_best>>

\* C16: under every chunking and every order in which the parallel
\* iterations run, the row stored at navigation index (i, j) is the
\* single-frame matcher's result for the pattern at (i, j); no position is
\* written twice and none is left unwritten.
C16_PositionOrder ==
    IsDataset =>
        /\ result.status = "computing" =>
               \A pos \in DOMAIN result.res_index :
                   \/ result.res_index[pos] = << >>
                   \/ result.res_index[pos] =
                          <<MatchOf(args.phases[result.phase_i + 1],
                                    [pattern |-> pos])>>
        /\ \A k \in DOMAIN result.result :
               LET r == result.result[k]
               IN  \A pos \in (0 .. result.data_shape[1] - 1)
                              \X (0 .. result.data_shape[2] - 1) :
                       /\ pos \in DOMAIN r.template_index.rows
                       /\ r.template_index.rows[pos].from =
                              <<MatchOf(args.phases[k], [pattern |-> pos])>>
                       /\ r.correlation.rows[pos].from =
                              <<MatchOf(args.phases[k], [pattern |-> pos])>>

C16_Witness ==
    /\ IsDataset
    /\ result.status = "ok"
    /\ Len(result.result) = 2
    /\ result.chunks0 = <<1, 1>>
    /\ result.chunks1 = <<1, 1>>
    /\ result.result[2].correlation.rows[<<1, 0>>].from =
           <<MatchOf("b", [pattern |-> <<1, 0>>])>>

(* ========================== vector utilities ========================== *)
\* bound: largest coordinate of a vector
MaxCoord == 2

Coords == -MaxCoord .. MaxCoord

\* cartesian vectors (the angle and the filters use the columns given)
Vectors2 == Coords \X Coords

\* spacing of the numbers a square root is rounded to: the model's floats
\* carry two binary digits after the point
Ulp == Frac(1, 4)

\* np.sum(a * b, axis=-1) of one row
Dot(a, b) == SumSeq([i \in DOMAIN a |-> a[i] * b[i]])

\* sqrt(x) rounded to the nearest multiple of Ulp (x a non-negative integer)
RoundSqrt(x) ==
    LET s == Ulp.d
        n == CHOOSE n \in 0 .. s * x + 1 :
                 /\ (2 * n - 1) * (2 * n - 1) <= 4 * s * s * x \/ n = 0
                 /\ 4 * s * s * x < (2 * n + 1) * (2 * n + 1)
    IN  Frac(n, s)

\* np.linalg.norm(a)
Norm(a) == RoundSqrt(Dot(a, a))

\* max(-1.0, min(1.0, q)), np.clip(q, -1.0, 1.0)
Clip(q) ==
    IF FLess(FOne, q) THEN FOne
    ELSE IF FLess(q, FInt(-1)) THEN FInt(-1) ELSE q

\* math.acos(q) for q in [-1, 1]: acos(1) is 0.0, other values are kept as
\* the cosine they are the angle of; outside [-1, 1] math.acos raises
Acos(q) ==
    IF FLess(FOne, q) \/ FLess(q, FInt(-1)) THEN Raise("ValueError")
    ELSE IF q = FOne THEN Value(FZero)
    ELSE Value([k |-> "acos", of |-> q])

\* mutant: no check of the zero denominator
get_angle_cartesian_NoGuard(a, b) ==
    LET denom == FMul(Norm(a), Norm(b))
    IN  IF denom = FZero THEN Raise("ZeroDivisionError")
        ELSE Acos(Clip(FDiv(FInt(Dot(a, b)), denom)))

get_angle_cartesian(a, b) ==
    LET denom == FMul(Norm(a), Norm(b))
    IN  IF denom = FZero THEN Value(FZero)
        ELSE Acos(Clip(FDiv(FInt(Dot(a, b)), denom)))

\* rows of the arrays given to get_angle_cartesian_vec
RowVectors == {<<0, 0>>, <<1, 0>>, <<1, 1>>, <<-1, -1>>, <<2, 2>>}

RowArrays == UNION {[1 .. n -> RowVectors] : n \in 1 .. 2}

\* row-wise: zeros where denom is 0, arccos of the clipped quotient elsewhere
get_angle_cartesian_vec(a, b) ==
    IF Len(a) # Len(b) THEN Raise("ValueError")
    ELSE [status |-> "ok",
          value |-> [i \in DOMAIN a |->
              LET denom == FMul(Norm(a[i]), Norm(b[i]))
              IN  IF denom = FZero THEN FZero
                  ELSE Acos(Clip(FDiv(FInt(Dot(a[i], b[i])), denom))).value]]

InitAngle ==
    /\ call = "get_angle_cartesian"
    /\ args \in [a : Vectors2, b : Vectors2]
    /\ result = Pending

InitAngleVec ==
    /\ call = "get_angle_cartesian_vec"
    /\ args \in [a : RowArrays, b : RowArrays]
    /\ result = Pending

CallAngle ==
    /\ call = "get_angle_cartesian"
    /\ result = Pending
    /\ result' = get_angle_cartesian(args.a, args.b)
    /\ UNCHANGED <<call, args>>

CallAngleVec ==
    /\ call = "get_angle_cartesian_vec"
    /\ result = Pending
    /\ result' = get_angle_cartesian_vec(args.a, args.b)
    /\ UNCHANGED <<call, args>>

\* bound: rows of an array of vectors
MaxVecs == 2

\* rows of the arrays of vectors: x, y and a third column
FilterRows == {<<0, 0, 9>>, <<1, 0, 9>>, <<0, 2, 9>>}

VectorArrays == UNION {[1 .. n -> FilterRows] : n \in 0 .. MaxVecs}

BasisVectors == {<<0, 0>>, <<1, 1>>}

\* basis: a 1-d array (one vector) or a 2-d array of vectors
BasisArrays ==
    {[ndim |-> 1, rows |-> <<v>>] : v \in BasisVectors}
    \cup {[ndim |-> 2, rows |-> r] :
              r \in UNION {[1 .. n -> BasisVectors] : n \in 1 .. MaxVecs}}

ColumnLists == {<<1, 2>>}

NoDistance == [given |-> FALSE]

Distances == {NoDistance} \cup {[given |-> TRUE, d |-> d] : d \in 0 .. 1}

\* dtype of the array of vectors; int64 is the dtype that equals int
Dtypes == {"float64", "int64", "int32"}

NanRow == <<NaN, NaN>>

\* vectors[:, columns]
TakeColumns(z, columns) ==
    [i \in DOMAIN z |-> [c \in DOMAIN columns |-> z[i][columns[c]]]]

\* square of the entry of cdist(vectors, basis) for one vector and one basis
\* vector; distances are compared through their squares
SquaredDistance(v, b) == Dot(<<v[1] - b[1], v[2] - b[2]>>, <<v[1] - b[1], v[2] - b[2]>>)

\* np.argmin(distance_mat, axis=0)[k]: the first vector at the least distance
closest_index(vectors, b) ==
    CHOOSE i \in DOMAIN vectors :
        /\ \A j \in DOMAIN vectors :
               SquaredDistance(vectors[i], b) <= SquaredDistance(vectors[j], b)
        /\ \A j \in DOMAIN vectors :
               j < i => SquaredDistance(vectors[i], b) < SquaredDistance(vectors[j], b)

\* min_distance > distance
TooFar(min_squared, distance) == min_squared > distance * distance

filter_vectors_near_basis(vectors_in, basis_in, columns, distance, dtype) ==
    LET vectors == TakeColumns(vectors_in, columns)
        basis == basis_in.rows
    IN  IF Len(vectors) = 0
        THEN Value([k \in DOMAIN basis |-> NanRow])
        ELSE IF distance.given /\ dtype \notin {"float64", "int64"}
        THEN Raise("ValueError")
        ELSE Value([k \in DOMAIN basis |->
                 LET i == closest_index(vectors, basis[k])
                 IN  IF distance.given
                        /\ TooFar(SquaredDistance(vectors[i], basis[k]), distance.d)
                     THEN NanRow ELSE vectors[i]])

Magnitudes == -1 .. 2

\* norms after the two assignments of 0, then z[np.where(norms)]
filter_vectors_ragged(z, min_magnitude, max_magnitude, columns) ==
    LET cols == TakeColumns(z, columns)
        norm(i) == Norm(cols[i])
        norms == [i \in DOMAIN z |->
                     IF FLess(norm(i), FInt(min_magnitude)) THEN FZero
                     ELSE IF FLess(FInt(max_magnitude), norm(i)) THEN FZero
                     ELSE norm(i)]
        where == SelectSeq([i \in DOMAIN z |-> i], LAMBDA i : norms[i] # FZero)
    IN  Value([k \in DOMAIN where |-> z[where[k]]])

InitNearBasis ==
    /\ call = "filter_vectors_near_basis"
    /\ args \in [vectors : VectorArrays, basis : BasisArrays,
                 columns : ColumnLists, distance : Distances, dtype : Dtypes]
    /\ result = Pending

InitRagged ==
    /\ call = "filter_vectors_ragged"
    /\ args \in [z : VectorArrays, min_magnitude : Magnitudes,
                 max_magnitude : Magnitudes, columns : ColumnLists]
    /\ result = Pending

CallNearBasis ==
    /\ call = "filter_vectors_near_basis"
    /\ result = Pending
    /\ result' = filter_vectors_near_basis(args.vectors, args.basis, args.columns,
                                           args.distance, args.dtype)
    /\ UNCHANGED <<call, args>>

CallRagged ==
    /\ call = "filter_vectors_ragged"
    /\ result = Pending
    /\ result' = filter_vectors_ragged(args.z, args.min_magnitude,
                                       args.max_magnitude, args.columns)
    /\ UNCHANGED <<call, args>>

InitVectors == InitAngle \/ InitAngleVec \/ InitNearBasis \/ InitRagged

NextVectors == CallAngle \/ CallAngleVec \/ CallNearBasis \/ CallRagged

SpecVectors == InitVectors /\ [][NextVectors]_vars

(* ================= properties of the vector utilities ================= *)
AngleDone == call = "get_angle_cartesian" /\ result # Pending

AngleVecDone == call = "get_angle_cartesian_vec" /\ result # Pending

ZeroVector(v) == v = <<0, 0>>

\* an angle in [0, pi]: 0, or the arccos of a cosine in [-1, 1)
InZeroPi(x) ==
    x = FZero \/ (x.k = "acos" /\ FLeq(FInt(-1), x.of) /\ FLess(x.of, FOne))

\* x is arccos of the clamped quotient dot / (norm * norm)
IsClampedArccos(x, a, b) ==
    LET q == FDiv(FInt(Dot(a, b)), FMul(Norm(a), Norm(b)))
    IN  IF FLeq(FOne, q) THEN x = FZero
        ELSE IF FLeq(q, FInt(-1)) THEN x = [k |-> "acos", of |-> FInt(-1)]
        ELSE x = [k |-> "acos", of |-> q]

\* the angle the call gives for a and b, as the claim describes it
AngleAsClaimed(x, a, b) ==
    IF ZeroVector(a) \/ ZeroVector(b) THEN x = FZero
    ELSE IsClampedArccos(x, a, b) /\ InZeroPi(x)

\* C17 as stated: the angle is 0 when either vector has zero norm, without
\* raising; otherwise it is arccos of the normalised dot product clamped to
\* [-1, 1], so it lies in [0, pi] and the angle between a nonzero vector and
\* itself is 0.
C17_AngleSelfZero ==
    /\ AngleDone =>
           /\ result.status = "ok"
           /\ AngleAsClaimed(result.value, args.a, args.b)
           /\ (args.a = args.b => result.value = FZero)
    /\ (AngleVecDone /\ Len(args.a) = Len(args.b)) =>
           /\ result.status = "ok"
           /\ \A i \in DOMAIN args.a :
                  /\ AngleAsClaimed(result.value[i], args.a[i], args.b[i])
                  /\ (args.a[i] = args.b[i] => result.value[i] = FZero)

\* the angle of a nonzero vector with itself: 0 unless the rounded product
\* of the norms exceeds the dot product, then arccos of that quotient
SelfAngle(x, v) ==
    LET dot == FInt(Dot(v, v))
        denom == FMul(Norm(v), Norm(v))
    IN  IF ZeroVector(v) \/ FLeq(denom, dot) THEN x = FZero
        ELSE x = [k |-> "acos", of |-> FDiv(dot, denom)] /\ FLess(FZero, x.of)

\* C17 amended: as stated, except that the angle between a nonzero vector
\* and itself is 0 only up to the rounding of the norms: it is arccos of
\* min(1, v.v / (|v| * |v|)) as computed, which is 0 or a small positive
\* angle.
C17_AngleClamped ==
    /\ AngleDone =>
           /\ result.status = "ok"
           /\ AngleAsClaimed(result.value, args.a, args.b)
           /\ (args.a = args.b => SelfAngle(result.value, args.a))
    /\ (AngleVecDone /\ Len(args.a) = Len(args.b)) =>
           /\ result.status = "ok"
           /\ \A i \in DOMAIN args.a :
                  /\ AngleAsClaimed(result.value[i], args.a[i], args.b[i])
                  /\ (args.a[i] = args.b[i] => SelfAngle(result.value[i], args.a[i]))

\* a nonzero vector with itself, the rounded norms leaving the quotient
\* below 1
C17_Witness ==
    /\ AngleDone
    /\ args.a = <<1, 1>>
    /\ args.b = <<1, 1>>
    /\ result.status = "ok"
    /\ result.value # FZero

NearBasisDone == call = "filter_vectors_near_basis" /\ result # Pending

\* C18: filter_vectors_near_basis returns one row per basis vector: row k is
\* the input vector (chosen columns) nearest to basis vector k, or NaN when
\* distance is given and that vector is farther than distance; with no
\* input vectors every row is NaN and the output has the basis's shape.
C18_NearestPerBasis ==
    NearBasisDone =>
        LET vectors == TakeColumns(args.vectors, args.columns)
            basis == args.basis.rows
        IN  /\ result.status = "ok"
            /\ DOMAIN result.value = DOMAIN basis
            /\ \A k \in DOMAIN basis :
                   IF Len(vectors) = 0 THEN result.value[k] = NanRow
                   ELSE \E i \in DOMAIN vectors :
                       /\ \A j \in DOMAIN vectors :
                              SquaredDistance(vectors[i], basis[k])
                                  <= SquaredDistance(vectors[j], basis[k])
                       /\ result.value[k] =
                              IF args.distance.given
                                 /\ SquaredDistance(vectors[i], basis[k])
                                        > args.distance.d * args.distance.d
                              THEN NanRow ELSE vectors[i]

RaggedDone == call = "filter_vectors_ragged" /\ result # Pending

\* min_magnitude <= |v| <= max_magnitude over the chosen columns
WithinMagnitudes(row, min_magnitude, max_magnitude) ==
    LET sq == row[1] * row[1] + row[2] * row[2]
    IN  /\ (min_magnitude <= 0 \/ min_magnitude * min_magnitude <= sq)
        /\ (max_magnitude >= 0 /\ sq <= max_magnitude * max_magnitude)

\* C19: filter_vectors_ragged returns exactly the input vectors whose
\* magnitude lies within [min_magnitude, max_magnitude], in their original
\* order, a zero-magnitude vector included when min_magnitude <= 0.
C19_WithinMagnitudes ==
    RaggedDone =>
        result = Value(SelectSeq(args.z,
                     LAMBDA row : WithinMagnitudes(row, args.min_magnitude,
                                                   args.max_magnitude)))

(* ================== paired inputs of the array tools ================== *)
\* bound: length of an axis of the arrays
MaxDim == 2

AxisLengths == 1 .. MaxDim

\* shapes of arrays of 1 or 2 axes
Shapes2 == UNION {[1 .. n -> AxisLengths] : n \in 1 .. 2}

\* shapes of image arrays: 1 or 2 navigation axes and the 2 signal axes
ImageShapes == {nav \o sig : nav \in Shapes2, sig \in [1 .. 2 -> AxisLengths]}

NavigationShape(shape) == SubSeq(shape, 1, Len(shape) - 2)

SignalShapeOf(shape) == SubSeq(shape, Len(shape) - 1, Len(shape))

\* mutant: shapes numpy would broadcast together are accepted
ShapesMatch_Broadcast(expected, given) ==
    /\ Len(expected) = Len(given)
    /\ \A i \in DOMAIN expected : given[i] = expected[i] \/ given[i] = 1

\* paired inputs are accepted only when the shapes are equal
ShapesMatch(expected, given) == expected = given

Shaped(shape) == [status |-> "ok", shape |-> shape]

\* peak refinement and peak intensity: one peak list per navigation position
PeakPaired(image_shape, peak_shape) ==
    IF ShapesMatch(NavigationShape(image_shape), peak_shape)
    THEN Shaped(peak_shape) ELSE Raise("ValueError")

\* masking: the mask covers one image
MaskPaired(image_shape, mask_shape) ==
    IF ShapesMatch(SignalShapeOf(image_shape), mask_shape)
    THEN Shaped(image_shape) ELSE Raise("ValueError")

\* centre of mass: x and y for every navigation position
CentreOfMassPaired(image_shape, mask_shape) ==
    IF ShapesMatch(SignalShapeOf(image_shape), mask_shape)
    THEN Shaped(<<2>> \o NavigationShape(image_shape)) ELSE Raise("ValueError")

\* chunk processing: one iterating value per navigation position of the chunk
ChunkPaired(chunk_shape, iter_nav_shape) ==
    IF ShapesMatch(NavigationShape(chunk_shape), iter_nav_shape)
    THEN Shaped(NavigationShape(chunk_shape)) ELSE Raise("ValueError")

PairedCalls ==
    {"_peak_refinement_centre_of_mass", "_intensity_peaks_image", "_mask_array",
     "_center_of_mass_array", "_process_chunk"}

InitPaired ==
    /\ call \in PairedCalls
    /\ args \in [image : ImageShapes, other : Shapes2]
    /\ result = Pending

CallPeakPaired ==
    /\ call \in {"_peak_refinement_centre_of_mass", "_intensity_peaks_image"}
    /\ result = Pending
    /\ result' = PeakPaired(args.image, args.other)
    /\ UNCHANGED <<call, args>>

CallMaskPaired ==
    /\ call = "_mask_array"
    /\ result = Pending
    /\ result' = MaskPaired(args.image, args.other)
    /\ UNCHANGED <<call, args>>

CallCentreOfMassPaired ==
    /\ call = "_center_of_mass_array"
    /\ result = Pending
    /\ result' = CentreOfMassPaired(args.image, args.other)
    /\ UNCHANGED <<call, args>>

CallChunkPaired ==
    /\ call = "_process_chunk"
    /\ result = Pending
    /\ result' = ChunkPaired(args.image, args.other)
    /\ UNCHANGED <<call, args>>

NextPaired ==
    \/ CallPeakPaired
    \/ CallMaskPaired
    \/ CallCentreOfMassPaired
    \/ CallChunkPaired

SpecPaired == InitPaired /\ [][NextPaired]_vars

(* ==================== properties of paired inputs ===================== *)
PairedDone == call \in PairedCalls /\ result # Pending

\* the part of the image array's shape the other input is paired with
PairedWith ==
    IF call \in {"_mask_array", "_center_of_mass_array"}
    THEN SignalShapeOf(args.image) ELSE NavigationShape(args.image)

\* C20: paired inputs whose shapes do not match are rejected with
\* ValueError, never broadcast or truncated: a peak array against the image
\* array's navigation shape, a mask against the signal shape, an iterating
\* array against the chunk's navigation shape.
C20_ShapeMismatch ==
    PairedDone =>
        IF args.other = PairedWith THEN result.status = "ok"
        ELSE result = Raise("ValueError")

\* a mask numpy would broadcast over the image is rejected
C20_Witness ==
    /\ call = "_mask_array"
    /\ args.image = <<2, 2, 2, 2>>
    /\ args.other = <<1, 2>>
    /\ result = Raise("ValueError")

(* ================= peak selection in match_vectors ==================== *)
\* the phase loop of match_vectors has selected and paired peaks
PeaksSelected ==
    /\ call = "match_vectors"
    /\ Len(args.peaks) >= 2
    /\ (result.status = "ok" \/ result.phase_index >= 1)

\* unindexed_peak_ids of the call
SelectedIds == _choose_peak_ids(args.peaks, args.n_peaks_to_index)

\* the pairs the loop over combinations examines
ExaminedPairs == Combinations2(SelectedIds)

\* C(n, 2)
Choose2(n) == (n * (n - 1)) \div 2

\* C21: _choose_peak_ids yields at most n_peaks_to_index peak indices, all
\* distinct and all valid indices of peaks, at evenly spaced positions of
\* the polar-angle-sorted order; at most C(n_peaks_to_index, 2) pairs are
\* examined and every examined pair (hence every solution's pair) consists
\* of two different peaks, also when n_peaks_to_index exceeds the number of
\* peaks.
C21_DistinctPeakIds ==
    PeaksSelected =>
        /\ Len(SelectedIds) <= args.n_peaks_to_index
        /\ \A i \in DOMAIN SelectedIds : SelectedIds[i] \in DOMAIN args.peaks
        /\ \A i, j \in DOMAIN SelectedIds :
               i # j => SelectedIds[i] # SelectedIds[j]
        /\ Len(ExaminedPairs) <= Choose2(args.n_peaks_to_index)
        /\ \A k \in DOMAIN ExaminedPairs :
               ExaminedPairs[k][1] # ExaminedPairs[k][2]
        /\ \A k \in DOMAIN result.top_matches :
               IsSolution(result.top_matches[k]) =>
                   result.top_matches[k].rotation_matrix.q1
                       # result.top_matches[k].rotation_matrix.q2

(* ================== padding of the ranked result sets ================= *)
\* a row of correlate_library that holds no template of score > 0
IsPaddingRow(row) == ~(row.score > 0)

\* the padding row the specification asks for: score 0 and the identity
\* orientation (Euler angles all 0, the label 0 of the orientation model)
IsSentinelRow(row) == row.score = 0 /\ row.orientation = 0

\* rows of phase blocks of correlate_library written so far
PaddedCorrelate ==
    (IsCorrelate /\ args.mask = 1 /\ result.phase_index >= 1) =>
        /\ Len(LastBlock(result)) = args.n_largest
        /\ \A i \in 1 .. args.n_largest :
               IsPaddingRow(LastBlock(result)[i])
                   => IsSentinelRow(LastBlock(result)[i])

\* rows returned by the two-stage search beyond the coarse-filter survivors
PaddedPolar ==
    (call = "get_n_best_matches" /\ result # Pending
        /\ ~KeepRaises(args.keep)) =>
        /\ result.status = "ok"
        /\ Len(result.cors) = args.n_best
        /\ \A i \in 1 .. args.n_best :
               i > Survivors =>
                   result.cors[i] = 0 /\ result.angles[i] = 0

\* C22: when a phase offers fewer than N valid candidates (fewer templates
\* than n_largest or fewer templates of positive score in
\* correlate_library; fewer coarse-filter survivors than n_best in
\* _mixed_matching_lib_to_polar) the matcher still returns exactly N rows
\* and every row not filled by a real candidate is a sentinel with score 0
\* and identity orientation, never an unset or arbitrary value.
C22_SentinelPadding == PaddedCorrelate /\ PaddedPolar

(* ================ rows returned by the two-stage search =============== *)
\* template index (0-based, in the original library) of a coarse survivor
IsSurvivor(index) ==
    /\ index + 1 \in DOMAIN result.condition
    /\ result.condition[index + 1]

NBestReturned ==
    call = "get_n_best_matches" /\ result # Pending /\ result.status = "ok"

\* the rows of get_n_best_matches are survivors with their own fine
\* correlation and angle, each once, best first
RowsAreSurvivors ==
    NBestReturned =>
        /\ Len(result.indices) = args.n_best
        /\ \A i \in DOMAIN result.indices :
               /\ IsSurvivor(result.indices[i])
               /\ result.cors[i] = args.full[result.indices[i] + 1].cor
               /\ result.angles[i] = args.full[result.indices[i] + 1].angle
        /\ \A i, j \in DOMAIN result.indices :
               i # j => result.indices[i] # result.indices[j]
        /\ \A i, j \in DOMAIN result.cors :
               i < j => result.cors[i] >= result.cors[j]
        /\ \A t \in DOMAIN args.full :
               result.condition[t] => result.cors[1] >= args.full[t].cor

\* stage 2 of correlate_library_to_pattern_partial covers the survivors and
\* nothing else
FullOnlyOnSurvivors ==
    (call = "correlate_library_to_pattern_partial" /\ result # Pending
        /\ result.status = "ok") =>
        /\ Len(result.full_cors) = Survivors
        /\ \A k \in DOMAIN result.template_indexes_filter :
               /\ IsSurvivor(result.template_indexes_filter[k])
               /\ result.full_cors[k] =
                      args.full[result.template_indexes_filter[k] + 1].cor
        /\ \A t \in DOMAIN result.condition :
               result.condition[t] =>
                   \E k \in DOMAIN result.template_indexes_filter :
                       result.template_indexes_filter[k] = t - 1

\* C23: in the two-stage search the full per-azimuth correlation is
\* computed only for the templates that survived the coarse filter; every
\* returned template index is the index in the original library of a
\* survivor, no index is returned twice, and the n_best returned rows are
\* in descending order of fine correlation, row 0 being the survivor of
\* maximal fine correlation.
C23_SurvivorRows == RowsAreSurvivors /\ FullOnlyOnSurvivors

(* ============== azimuthal matching of polar templates ================= *)
(* A polar image is indexed [theta][r] (shape[0] azimuth bins, shape[1]   *)
(* radial bins), both from 0.  A template is its reflections' radial and  *)
(* azimuthal indices and intensities.  The radial indices drawn here are  *)
(* inside the image.                                                       *)
(***************************************************************************)
\* bound: azimuth bins of a polar image
MaxTheta == 3

\* value of a pixel of the polar image
PolarPixels == {0, 1}

PolarImages ==
    UNION {[0 .. T - 1 -> [0 .. 0 -> PolarPixels]] : T \in 1 .. MaxTheta}

\* polar_image.shape[0], polar_image.shape[1]
Shape0(polar_image) == Cardinality(DOMAIN polar_image)
Shape1(polar_image) == Cardinality(DOMAIN polar_image[0])

\* templates of one or two reflections; theta may be the number of bins,
\* as the rounding of _cartesian_positions_to_polar can give
PolarTemplates(T) ==
    UNION {[r : [1 .. m -> {0}], theta : [1 .. m -> 0 .. T],
            intensities : [1 .. m -> {1}]] : m \in 1 .. 2}

\* experimental[j] = image[y[j], x[j]]
_extract_pixel_intensities(image, x, y) == [j \in DOMAIN x |-> image[y[j]][x[j]]]

\* theta_compare = np.mod(theta_template + i, polar_image.shape[0])
ThetaCompare(theta_template, i, bins) ==
    [j \in DOMAIN theta_template |-> (theta_template[j] + i) % bins]

\* the correlation at each in-plane shift
_match_polar_to_polar_template(polar_image, r_template, theta_template, intensities, jit) ==
    LET n == Shape0(polar_image) * Shape1(polar_image)
    IN  [i \in 0 .. Shape0(polar_image) - 1 |->
            _pearson_correlation(
                _extract_pixel_intensities(
                    polar_image, r_template,
                    ThetaCompare(theta_template, i, Shape0(polar_image))),
                intensities, n, jit)]

\* a > b for two correlations of one template (same positive denominator
\* when both are finite); nothing compares with nan
CorrGreater(a, b) ==
    IF a.k = "nan" \/ b.k = "nan" THEN FALSE
    ELSE IF a.k = "inf" THEN b.k # "inf"
    ELSE IF a.k = "-inf" \/ b.k = "inf" THEN FALSE
    ELSE IF b.k = "-inf" THEN TRUE
    ELSE FLess(b.num, a.num)

\* smallest element of a non-empty set of shifts
Least(S) == CHOOSE k \in S : \A j \in S : k <= j

\* mutant: the last maximising shift
np_argmax_Last(match) ==
    LET nans == {k \in DOMAIN match : match[k] = NaN}
        tops == {k \in DOMAIN match :
                    \A j \in DOMAIN match : ~CorrGreater(match[j], match[k])}
    IN  IF nans # {} THEN Least(nans)
        ELSE CHOOSE k \in tops : \A j \in tops : j <= k

\* np.argmax: the first nan if there is one, else the first maximum
np_argmax(match) ==
    LET nans == {k \in DOMAIN match : match[k] = NaN}
        tops == {k \in DOMAIN match :
                    \A j \in DOMAIN match : ~CorrGreater(match[j], match[k])}
    IN  IF nans # {} THEN Least(nans) ELSE Least(tops)

\* np.max: nan if there is one, else the maximum
np_max(match) == match[np_argmax(match)]

\* correlations and angles of all templates; a division by zero raised for
\* a template ends the call
_match_polar_to_polar_library(polar_image, templates, jit) ==
    LET d_theta == Frac(360, Shape0(polar_image))
        match(i) ==
            _match_polar_to_polar_template(polar_image, templates[i].r,
                templates[i].theta, templates[i].intensities, jit)
        values(i) == [k \in DOMAIN match(i) |-> match(i)[k].value]
        raising == {i \in DOMAIN templates :
                       \E k \in DOMAIN match(i) : match(i)[k].status # "ok"}
    IN  IF raising # {} THEN Raise("ZeroDivisionError")
        ELSE [status |-> "ok",
              correlations |-> [i \in DOMAIN templates |-> np_max(values(i))],
              angles |-> [i \in DOMAIN templates |->
                             FMul(FInt(np_argmax(values(i))), d_theta)]]

InitShift ==
    /\ call = "_match_polar_to_polar_library"
    /\ \E polar_image \in PolarImages, jit \in Jits :
       \E templates \in UNION {[1 .. n -> PolarTemplates(Shape0(polar_image))] :
                               n \in 1 .. 2} :
           args = [polar_image |-> polar_image, templates |-> templates,
                   jit |-> jit]
    /\ result = Pending

CallShift ==
    /\ call = "_match_polar_to_polar_library"
    /\ result = Pending
    /\ result' = _match_polar_to_polar_library(args.polar_image, args.templates,
                                               args.jit)
    /\ UNCHANGED <<call, args>>

SpecShift == InitShift /\ [][CallShift]_vars

(* ================= properties of the azimuthal matching =============== *)
ShiftDone ==
    call = "_match_polar_to_polar_library" /\ result.status = "ok"

\* the correlation of template i with its azimuthal indices shifted
\* circularly by k bins
CorrelationAtShift(i, k) ==
    LET t == args.templates[i]
        bins == Shape0(args.polar_image)
        sampled == [j \in DOMAIN t.r |->
                       args.polar_image[(t.theta[j] + k) % bins][t.r[j]]]
    IN  _pearson_correlation(sampled, t.intensities,
                             bins * Shape1(args.polar_image), args.jit).value

\* k is the smallest shift at which template i reaches correlation c, and
\* no shift gives more
SmallestMaximisingShift(i, k, c) ==
    /\ CorrelationAtShift(i, k) = c
    /\ \A j \in 0 .. Shape0(args.polar_image) - 1 :
           /\ ~CorrGreater(CorrelationAtShift(i, j), c)
           /\ j < k => CorrelationAtShift(i, j) # c

\* C24: for every template _match_polar_to_polar_library evaluates the
\* correlation at every azimuthal shift 0 .. theta_bins-1 with the
\* template's azimuthal indices shifted circularly (modulo theta_bins),
\* returns as correlation the maximum over all shifts and as angle the
\* smallest maximising shift multiplied by 360/theta_bins, so the angle
\* lies in [0, 360).
C24_BestShift ==
    ShiftDone =>
        \A i \in DOMAIN args.templates :
            /\ \E k \in 0 .. Shape0(args.polar_image) - 1 :
                   /\ SmallestMaximisingShift(i, k, result.correlations[i])
                   /\ result.angles[i] =
                          Frac(360 * k, Shape0(args.polar_image))
            /\ FLeq(FZero, result.angles[i])
            /\ FLess(result.angles[i], FInt(360))

\* C24 witness: with 3 azimuth bins a template whose azimuthal index is the
\* number of bins (wrapped to 0) correlates equally at shifts 1 and 2 and
\* less at shift 0, and the angle returned is that of shift 1, 120 degrees
C24_Witness ==
    /\ ShiftDone
    /\ Shape0(args.polar_image) = 3
    /\ args.templates[1].theta = <<3>>
    /\ CorrelationAtShift(1, 1) = CorrelationAtShift(1, 2)
    /\ CorrGreater(CorrelationAtShift(1, 1), CorrelationAtShift(1, 0))
    /\ result.angles[1] = FInt(120)

(* ======================= full_frame_correlation ======================= *)
(* res_matrix = np.fft.ifftn(pattern_FT * image_FT) is taken as given: its *)
(* real part, indexed from 0 on both axes, is 0 everywhere or 1 at a       *)
(* single position (one correlation peak).                                 *)
(***************************************************************************)
\* bound: length of an axis of res_matrix
MaxFrame == 7

FrameNorms == {0, 1, 2}

\* np.real(res_matrix) with one peak, or none
NoPeak == <<-1, -1>>

FrameMatrices ==
    UNION {[fsize : {<<n0, n1>>}, peak : ((0 .. n0 - 1) \X (0 .. n1 - 1)) \cup {NoPeak}] :
           n0 \in 1 .. MaxFrame, n1 \in 1 .. MaxFrame}

RealAt(res_matrix, i, j) == IF res_matrix.peak = <<i, j>> THEN 1 ELSE 0

Max2(a, b) == IF a > b THEN a ELSE b

\* the indices of max(n // 2 - 3, 0) : min(n // 2 + 3, n), a slice whose
\* stop is exclusive
WindowSlice(n) == Max2(n \div 2 - 3, 0) .. Min(n \div 2 + 3, n) - 1

\* np.max over the window
WindowMax(res_matrix) ==
    IF \E i \in WindowSlice(res_matrix.fsize[1]), j \in WindowSlice(res_matrix.fsize[2]) :
           RealAt(res_matrix, i, j) = 1
    THEN 1 ELSE 0

full_frame_correlation(res_matrix, image_norm, pattern_norm) ==
    LET corr_local == FInt(WindowMax(res_matrix))
    IN  IF image_norm > 0 /\ pattern_norm > 0
        THEN Value(FDiv(corr_local, FInt(image_norm * pattern_norm)))
        ELSE Value(corr_local)

InitFrame ==
    /\ call = "full_frame_correlation"
    /\ args \in [res_matrix : FrameMatrices, image_norm : FrameNorms,
                 pattern_norm : FrameNorms]
    /\ result = Pending

CallFrame ==
    /\ call = "full_frame_correlation"
    /\ result = Pending
    /\ result' = full_frame_correlation(args.res_matrix, args.image_norm,
                                        args.pattern_norm)
    /\ UNCHANGED <<call, args>>

SpecFrame == InitFrame /\ [][CallFrame]_vars

(* ================ properties of full_frame_correlation ================ *)
FrameDone == call = "full_frame_correlation" /\ result # Pending

\* indices of an axis of length n at offsets lo .. hi of the centre index
\* n // 2, clipped to the array
AroundCentre(n, lo, hi) ==
    {i \in 0 .. n - 1 : i - n \div 2 >= lo /\ i - n \div 2 <= hi}

\* the maximum real part over the offsets lo .. hi on each axis
MaxAround(res_matrix, lo, hi) ==
    IF \E i \in AroundCentre(res_matrix.fsize[1], lo, hi),
          j \in AroundCentre(res_matrix.fsize[2], lo, hi) :
           RealAt(res_matrix, i, j) = 1
    THEN 1 ELSE 0

\* the score for a window of offsets lo .. hi, divided by the product of the
\* norms exactly when both are > 0
ScoreAround(lo, hi) ==
    LET m == FInt(MaxAround(args.res_matrix, lo, hi))
    IN  IF args.image_norm > 0 /\ args.pattern_norm > 0
        THEN FDiv(m, FInt(args.image_norm * args.pattern_norm))
        ELSE m

\* C25: full_frame_correlation takes the maximum real part of the
\* inverse-FFT product over the window of indices within +-3 pixels of the
\* centre index (offsets -3 .. +3 inclusive on each axis, clipped to the
\* array) and divides it by image_norm * pattern_norm exactly when both
\* norms are > 0, leaving it undivided otherwise.
C25_WindowPlusMinus3 ==
    FrameDone => result = Value(ScoreAround(-3, 3))

(* ================= the template library is read-only ================== *)
\* the orientation row the result of phase k must hold at position pos for
\* the b-th best match: the matcher's in-plane angle and the second and
\* third Euler angle of the matched template as the library was built
OrientationOf(k, pos, b) ==
    LET row == MatchOf(args.phases[k], [pattern |-> pos])
        template == TemplateLibrary[args.phases[k]].orientations[
                        TemplateIndexOf(row, b - 1) + 1]
    IN  <<AngleOf(row, b - 1), template[2], template[3]>>

Vectors3 ==
    {<<0, 0, 0>>, <<1, 0, 0>>, <<-1, 0, 0>>, <<0, 1, 0>>, <<0, 0, 1>>, <<1, 1, 0>>}

\* number of to-pairs of a call
RotationEntries == {1, 2}

ZeroVector3 == <<0, 0, 0>>

\* np.cross(a, b, axis=-1) of one row
Cross(a, b) ==
    <<a[2] * b[3] - a[3] * b[2], a[3] * b[1] - a[1] * b[3],
      a[1] * b[2] - a[2] * b[1]>>

\* np.isclose(np.sum(np.abs(v), axis=-1), 0.0) of one row
IsCloseToZero(v) == Abs(v[1]) + Abs(v[2]) + Abs(v[3]) = 0

\* plane_normal_to of one entry after lines 189-192
ReplaceDegenerate(from_v1, from_v2, to_v1, to_v2) ==
    LET n0 == Cross(to_v1, to_v2)
        n1 == IF IsCloseToZero(n0) THEN Cross(from_v1, to_v1) ELSE n0
    IN  IF IsCloseToZero(n1) THEN Cross(from_v2, to_v2) ELSE n1

\* the angle of one pair of rows
AngleOfRows(a, b) == get_angle_cartesian_vec(<<a>>, <<b>>).value[1]

\* axangle2mat(axis, angle, is_normalized=True)
axangle2mat(axis, angle) ==
    IF angle = FZero THEN Identity3
    ELSE IF axis = ZeroVector3 THEN [k |-> "cos_times_identity", angle |-> angle]
    ELSE [k |-> "axangle", axis |-> axis, angle |-> angle]

\* np.matmul(R2, R1)
MatMul(R2, R1) ==
    IF R1 = Identity3 THEN R2
    ELSE IF R2 = Identity3 THEN R1
    ELSE [k |-> "product", left |-> R2, right |-> R1]

\* np.matmul(R1, v)
Rotated(R1, v) == [rotated_by |-> R1, v |-> v]

\* get_angle_cartesian_vec of a rotated from-vector and a to-vector
AngleAfter(rot_from, to) ==
    IF rot_from.rotated_by = Identity3 THEN AngleOfRows(rot_from.v, to)
    ELSE [k |-> "angle", a |-> rot_from, b |-> to]

\* 0.5 * (angle1 + angle2)
MeanAngle(angle1, angle2) ==
    IF angle1 = FZero /\ angle2 = FZero THEN FZero
    ELSE [k |-> "mean", angle1 |-> angle1, angle2 |-> angle2]

\* np.negative(angles, out=angles, where=neg_angle_mask)
Negated(angle, rot_from_v1, to_v1, plane_normal_to) ==
    IF angle = FZero THEN FZero
    ELSE IF rot_from_v1.rotated_by = Identity3
    THEN IF Dot(Cross(rot_from_v1.v, to_v1), plane_normal_to) < 0
         THEN [k |-> "negative", of |-> angle] ELSE angle
    ELSE [k |-> "signed", of |-> angle]

\* the rotation of one entry and the to-normal used for it
RotationEntry(from_v1, from_v2, to_v1, to_v2) ==
    LET plane_normal_from == Cross(from_v1, from_v2)
        plane_common_axes == Cross(plane_normal_from, Cross(to_v1, to_v2))
        plane_normal_to == ReplaceDegenerate(from_v1, from_v2, to_v1, to_v2)
        common_valid == ~IsCloseToZero(plane_common_axes)
        R1 == IF common_valid
              THEN axangle2mat(plane_common_axes,
                               AngleOfRows(plane_normal_from, plane_normal_to))
              ELSE Identity3
        rot_from_v1 == Rotated(R1, from_v1)
        rot_from_v2 == Rotated(R1, from_v2)
        angles == Negated(MeanAngle(AngleAfter(rot_from_v1, to_v1),
                                    AngleAfter(rot_from_v2, to_v2)),
                          rot_from_v1, to_v1, plane_normal_to)
        R2 == axangle2mat(plane_normal_to, angles)
    IN  [plane_normal_to |-> plane_normal_to, R |-> MatMul(R2, R1)]

get_rotation_matrix_between_vectors(from_v1, from_v2, to_v1, to_v2) ==
    [status |-> "ok",
     entries |-> [i \in DOMAIN to_v1 |->
                     RotationEntry(from_v1, from_v2, to_v1[i], to_v2[i])]]

InitRotation ==
    /\ call = "get_rotation_matrix_between_vectors"
    /\ \E n \in RotationEntries :
           args \in [from_v1 : Vectors3, from_v2 : Vectors3,
                     to_v1 : [1 .. n -> Vectors3], to_v2 : [1 .. n -> Vectors3]]
    /\ result = Pending

CallRotation ==
    /\ call = "get_rotation_matrix_between_vectors"
    /\ result = Pending
    /\ result' = get_rotation_matrix_between_vectors(args.from_v1, args.from_v2,
                                                     args.to_v1, args.to_v2)
    /\ UNCHANGED <<call, args>>

SpecRotation == InitRotation /\ [][CallRotation]_vars

(* ========= properties of get_rotation_matrix_between_vectors ========== *)
RotationDone ==
    call = "get_rotation_matrix_between_vectors" /\ result # Pending

TargetDegenerate(i) == Cross(args.to_v1[i], args.to_v2[i]) = ZeroVector3

FirstSubstitute(i) == Cross(args.from_v1, args.to_v1[i])

SecondSubstitute(i) == Cross(args.from_v2, args.to_v2[i])

\* the normal of entry i stays degenerate after both substitutions
StillDegenerate(i) ==
    /\ TargetDegenerate(i)
    /\ FirstSubstitute(i) = ZeroVector3
    /\ SecondSubstitute(i) = ZeroVector3

IdentityCase(i) ==
    args.to_v1[i] = args.from_v1 /\ args.to_v2[i] = args.from_v2

\* the substitutions of the to-normal, entry by entry
NormalSubstituted ==
    RotationDone =>
        \A i \in DOMAIN args.to_v1 :
            result.entries[i].plane_normal_to =
                IF ~TargetDegenerate(i) THEN Cross(args.to_v1[i], args.to_v2[i])
                ELSE IF FirstSubstitute(i) # ZeroVector3 THEN FirstSubstitute(i)
                ELSE SecondSubstitute(i)

\* every entry whose normal stays degenerate gets the identity
DegenerateGivesIdentity ==
    RotationDone =>
        \A i \in DOMAIN args.to_v1 :
            StillDegenerate(i) => result.entries[i].R = Identity3

\* every entry whose to-pair is the from-pair gets the identity
IdentityGivesIdentity ==
    RotationDone =>
        \A i \in DOMAIN args.to_v1 :
            IdentityCase(i) => result.entries[i].R = Identity3

\* C27: get_rotation_matrix_between_vectors handles degenerate target pairs
\* entry by entry: a (near-)zero normal to_v1 x to_v2 is replaced by
\* from_v1 x to_v1 and, if that is also (near-)zero, by from_v2 x to_v2; if
\* the normal is still degenerate the rotation returned for that entry is
\* the identity matrix; and for the identity case (to pair equal to the
\* from pair) every returned matrix is the identity.
C27_DegenerateEntries ==
    NormalSubstituted /\ DegenerateGivesIdentity /\ IdentityGivesIdentity

(* ============== phase attribution of match_vectors' rows ============== *)
\* phase whose block position k (from 1) of top_matches belongs to
BlockPhase(k) == (k - 1) \div args.n_best

\* C28: every entry that match_vectors writes into phase p's block of the
\* output (positions p*n_best .. (p+1)*n_best-1), real solution or padding
\* sentinel, carries phase_index == p, so that
\* crystal_from_vector_matching's split into same-phase and other-phase
\* matches attributes every row to the phase of its block.
C28_BlockPhaseIndex ==
    call = "match_vectors" =>
        \A k \in DOMAIN result.top_matches :
            IsSet(result.top_matches[k]) =>
                result.top_matches[k].phase_index = BlockPhase(k)

(* ================= polar indices of template reflections ============== *)
(* _prepare_image_and_templates followed by                                *)
(* _get_integrated_polar_templates, as get_n_best_matches calls them, for  *)
(* one template.  A reflection is given by the modulus and the argument    *)
(* (degrees, in (-180, 180]) of x + iy; the polar image has                *)
(* 360 / delta_theta azimuth bins and r_bins radial bins.                  *)
(***************************************************************************)
\* bound: radial bins of the polar image
MaxRadial == 2

\* moduli in half pixels, up to beyond the largest max_radius
Moduli == {Frac(k, 2) : k \in 0 .. 2 * MaxRadial + 1}

Arguments == {-90, -1, 0, 45, 135, 180}

DeltaRs == {FOne, Frac(1, 2)}

DeltaThetas == {90, 180}

Reflections == [modulus : Moduli, argument : Arguments]

PaddingReflection == [modulus |-> FZero, argument |-> 0]

\* np.rint of a non-negative fraction: to the nearest integer, halves to
\* the even one
Rint(q) ==
    LET f == q.n \div q.d
        twice == FSub(FMul(FInt(2), q), FInt(2 * f))
    IN  IF FLess(twice, FOne) THEN f
        ELSE IF FLess(FOne, twice) THEN f + 1
        ELSE IF f % 2 = 0 THEN f ELSE f + 1

\* the reflections with x**2 + y**2 < max_radius**2, moved to the front and
\* padded with zeros to the length of the template
_simulations_to_arrays(simulation, max_radius) ==
    LET kept == SelectSeq(simulation, LAMBDA s : FLess(s.modulus, max_radius))
    IN  [j \in DOMAIN simulation |->
            IF j <= Len(kept) THEN kept[j] ELSE PaddingReflection]

\* r = rint(|x + iy| / delta_r), theta = rint(mod(angle, 360) / delta_theta)
_cartesian_positions_to_polar(positions, delta_r, delta_theta) ==
    [r |-> [j \in DOMAIN positions |-> Rint(FDiv(positions[j].modulus, delta_r))],
     theta |-> [j \in DOMAIN positions |->
                   Rint(Frac(positions[j].argument % 360, delta_theta))]]

\* integrated_templates[i, r_p] += inten: an index r_p >= r_max raises
_get_integrated_polar_templates(r_max, r_template) ==
    IF \E j \in DOMAIN r_template : r_template[j] >= r_max
    THEN Raise("IndexError") ELSE [status |-> "ok"]

\* max_radius = polar_image.shape[1] * delta_r, then the two conversions
_prepare_image_and_templates(simulation, delta_r, delta_theta, r_bins) ==
    LET max_radius == FMul(FInt(r_bins), delta_r)
        positions == _simulations_to_arrays(simulation, max_radius)
        polar == _cartesian_positions_to_polar(positions, delta_r, delta_theta)
    IN  [status |-> _get_integrated_polar_templates(r_bins, polar.r).status,
         kept |-> Len(SelectSeq(simulation,
                                LAMBDA s : FLess(s.modulus, max_radius))),
         r |-> polar.r, theta |-> polar.theta]

InitPrepare ==
    /\ call = "_prepare_image_and_templates"
    /\ \E n \in 1 .. 2 :
           args \in [simulation : [1 .. n -> Reflections], delta_r : DeltaRs,
                     delta_theta : DeltaThetas, r_bins : 1 .. MaxRadial]
    /\ result = Pending

CallPrepare ==
    /\ call = "_prepare_image_and_templates"
    /\ result = Pending
    /\ result' = _prepare_image_and_templates(args.simulation, args.delta_r,
                                              args.delta_theta, args.r_bins)
    /\ UNCHANGED <<call, args>>

SpecPrepare == InitPrepare /\ [][CallPrepare]_vars

(* ==================== properties of the polar indices ================= *)
PrepareDone == call = "_prepare_image_and_templates" /\ result # Pending

ThetaBins == 360 \div args.delta_theta

\* the azimuthal indices used for reflection j: one per shift
ThetaUsed(j) == {(result.theta[j] + i) % ThetaBins : i \in 0 .. ThetaBins - 1}

ThetaInside ==
    PrepareDone =>
        \A j \in 1 .. result.kept :
            \A t \in ThetaUsed(j) : 0 <= t /\ t < ThetaBins

RadialInside ==
    PrepareDone =>
        \A j \in 1 .. result.kept : 0 <= result.r[j] /\ result.r[j] < args.r_bins

\* C29: every (r, theta) index pair used to sample a polar image during
\* polar matching is inside the image: for every template reflection that
\* passes the max_radius filter and for every azimuthal shift,
\* 0 <= theta < number of azimuth bins and 0 <= r < number of radial bins
\* after the rounding of _cartesian_positions_to_polar, and every radial
\* index used by _get_integrated_polar_templates is < r_max (no IndexError).
C29_IndicesInside ==
    /\ ThetaInside
    /\ RadialInside
    /\ PrepareDone => result.status = "ok"

(* ============ reliability of the template matching result ============= *)
\* every phase present has at least two rows
TwoRowsPerPhase(z) == \A p \in PhasesIn(z) : RowsOfPhase(z, p) >= 2

\* result sets of non-negative scores sorted within each phase, at least
\* two rows per phase
ReliabilityInputs ==
    {z \in UNION {[1 .. n -> [phase : Phases, score : Scores]] :
                     n \in 2 .. MaxRows + 1} :
        SortedWithinPhase(z) /\ TwoRowsPerPhase(z)}

InitReliability ==
    /\ call = "crystal_from_template_matching"
    /\ args \in {[z_matches |-> WithOrientation(z), scalar |-> k] :
                    z \in ReliabilityInputs, k \in Scalars}
    /\ result = Pending

SpecReliability == InitReliability /\ [][CallTemplate]_vars

\* 0 <= r <= 100
InZeroHundred(r) == IsNum(r) /\ FLeq(FZero, r) /\ FLeq(r, FInt(100))

ReliabilityCase ==
    /\ TemplateDone
    /\ \A i \in DOMAIN args.z_matches : args.z_matches[i].score >= 0
    /\ SortedWithinPhase(args.z_matches)
    /\ TwoRowsPerPhase(args.z_matches)
    /\ MaxScoreIn(args.z_matches) > 0

\* C30: for every z_matches with non-negative scores, sorted descending
\* within each phase, at least two rows per phase and a best score > 0,
\* every orientation_reliability and phase_reliability returned by
\* crystal_from_template_matching lies in [0, 100] and equals 0 exactly
\* when the runner-up score (of the reported phase, resp. of the other
\* phases) equals the best score.
C30_ReliabilityBounded ==
    ReliabilityCase =>
        LET z == args.z_matches
            best == MaxScoreIn(z)
        IN  /\ Returned
            /\ InZeroHundred(result.metrics.orientation_reliability)
            /\ result.metrics.orientation_reliability = FZero
                   <=> RunnerUpScore(z, result.phase) = best
            /\ "phase_reliability" \in DOMAIN result.metrics =>
                   /\ InZeroHundred(result.metrics.phase_reliability)
                   /\ result.metrics.phase_reliability = FZero
                          <=> OtherPhaseMax(z, result.phase) = best

\* C30 witness: two phases of two rows each; the reported phase has tied
\* rows (orientation_reliability 0) and the other phase's best row scores
\* half the best score (phase_reliability 50)
C30_Witness ==
    /\ ReliabilityCase /\ Returned
    /\ Cardinality(PhasesIn(args.z_matches)) = 2
    /\ result.metrics.orientation_reliability = FZero
    /\ result.metrics.phase_reliability = FInt(50)

====
